---- MODULE Spec2Model ----
(***************************************************************************)
(* Model of the task lifecycle of the Novel Task Manager backend:          *)
(*   - the task table (app/models/task.py),                                *)
(*   - the background processor run     (app/services/task_processor.py), *)
(*   - the timeout monitor sweep        (app/services/task_monitor.py),   *)
(*   - the upload / update / retry handlers (app/api/tasks.py),            *)
(*   - the WebSocket connection manager (app/api/websocket.py).            *)
(*                                                                         *)
(* Every coroutine is cut at its awaits: one action is the code between    *)
(* two suspension points.  A database statement together with its commit   *)
(* is one atomic write; a publish that finds no subscriber does not        *)
(* suspend and is part of the step that calls it.                          *)
(*                                                                         *)
(* Time is a clock in seconds that advances in steps of TickSeconds.       *)
(*                                                                         *)
(* Specifications:                                                         *)
(*   Spec          uploads, runs, sweeps and retries, no client connected  *)
(*   SpecApi       the same with PATCH requests on the task                *)
(*   SpecEndpoints the WebSocket endpoints alone                           *)
(*   SpecFollow    one upload, its run, the sweeps, one client following   *)
(*   SpecPublish   the first notification of a run, two clients            *)
(*   SpecOrder     one upload, its run, the sweeps, two subscribers, one   *)
(*                 of which connects again                                 *)
(*   SpecLookup    requests on /tasks/{task_id} with ids and fragments     *)
(*   SpecIngress   overlapping upload requests, step by step, and deletes  *)
(*   SpecReceive   the endpoints, with texts an endpoint cannot read       *)
(***************************************************************************)
EXTENDS Integers, Sequences, FiniteSets, TLC

\* ------------------------------------------------------------------ bounds
MaxTasks == 1            \* task ids are 1..MaxTasks
MaxRuns == 2             \* processor runs that can be scheduled in one behaviour
MaxTime == 150           \* the clock stops here
TickSeconds == 30        \* granularity of the clock
\* settings.TASK_TIMEOUT_SECONDS is a deployment setting (default 300); the
\* model runs a deployment with a short limit so that a run can both finish
\* within it and exceed it before the clock stops.
TASK_TIMEOUT_SECONDS == 90
\* simulate_processing adds 3 per update; the model takes a coarser step (the
\* loop is the same: add, clamp at 100, write, publish).
progress_increment == 40
MaxSockets == 2          \* WebSocket connections opened in one behaviour
MaxClients == 2          \* client ids the connections present
MaxTopics == 2           \* task ids a client may name in a subscribe message
LongTime == 180          \* where the clock stops when the monitor is followed past a sweep
ShortTime == 120         \* where the clock stops when clients or PATCH requests take part
MaxUploads == 2          \* upload requests made in one behaviour
MaxContents == 2         \* different file contents the uploads carry

\* ------------------------------------------------------- program constants
update_interval == 30    \* seconds between two progress updates
check_interval == 60     \* seconds between two sweeps

TaskIds == 1..MaxTasks
\* the task ids with one more: where a sweep has several tasks to handle
AllTasks == 1..(MaxTasks + 1)
RunIds == 1..MaxRuns
SockIds == 1..MaxSockets
\* one more socket, for a client that connects again under the id it has
Again == MaxSockets + 1
AllSocks == SockIds \cup {Again}
ClientIds == 1..MaxClients
TopicIds == 1..MaxTopics

\* Optional values: Python None / SQL NULL is the empty tuple.
None == <<>>
Some(v) == <<v>>
Val(o) == o[1]

PENDING == "pending"
PROCESSING == "processing"
COMPLETED == "completed"
FAILED == "failed"
TaskStatus == {PENDING, PROCESSING, COMPLETED, FAILED}

Min(a, b) == IF a < b THEN a ELSE b

\* Messages are sequences of words.
TimeoutErrorMessage ==
    <<"Task", "exceeded", "maximum", "processing", "time", "of",
      ToString(TASK_TIMEOUT_SECONDS \div 60), "minutes">>
TaskNotFoundMessage(t) == <<"Task", ToString(t), "not", "found">>
ResultUrl(t) == <<"/results/", ToString(t)>>

\* Python truthiness of an Optional[str]
Truthy(o) == o # None /\ Val(o) # <<>>

VARIABLES
    now,            \* the clock (datetime.utcnow(), the event loop's time)
    tasks,          \* the tasks table: id -> row, for the ids that exist
    logs,           \* the task_logs table, as the set of entries written
    runs,           \* the background runs of TaskProcessor.process_task
    mon,            \* the TaskMonitor loop and the sweep in flight
    active_connections, \* ConnectionManager.active_connections: client id -> socket
    task_subscribers,   \* ConnectionManager.task_subscribers: task id -> set of client ids
    socks,          \* the WebSocket endpoints (one coroutine per socket)
    dropped,        \* history: the last call of ConnectionManager.disconnect
    bcast,          \* the broadcast_task_update call in flight of each publisher
    failedBy,       \* history: who wrote the FAILED status a task has now
    reply,          \* the response to the last retry request
    inbox,          \* the last notification each socket was sent, the answer to a
                    \* subscribe it was sent since, and the sends it has in flight
    seq,            \* history: how many notifications were published so far
    uploads         \* the upload requests in flight, the files under UPLOAD_DIR,
                    \* the file_storage table and the file_hash column of tasks

storevars == <<tasks, logs>>
hubvars == <<active_connections, task_subscribers, socks, dropped>>
vars == <<now, tasks, logs, runs, mon, active_connections, task_subscribers,
          socks, dropped, bcast, failedBy, reply, inbox, seq, uploads>>
wirevars == <<inbox, seq>>

\* ------------------------------------------------------------- the store
NewTask == [status |-> PENDING, progress |-> Some(0),
            result_url |-> None, error_message |-> None,
            uploaded_at |-> now, started_at |-> None, completed_at |-> None]

Exists(t) == t \in DOMAIN tasks

\* CheckConstraint("progress >= 0 AND progress <= 100"): a CHECK rejects a row
\* only when the condition is false, and it is NULL (not false) for a NULL.
chk_progress(p) == IF p = None THEN TRUE ELSE Val(p) >= 0 /\ Val(p) <= 100

\* TaskProcessor.update_task_status: the values of the UPDATE statement
StatusValues(row, status, result_url, error_message) ==
    LET v1 == [row EXCEPT !.status = status]
        v2 == IF status = PROCESSING THEN [v1 EXCEPT !.started_at = Some(now)]
              ELSE IF status \in {COMPLETED, FAILED}
                   THEN [v1 EXCEPT !.completed_at = Some(now)]
                   ELSE v1
        v3 == IF Truthy(result_url) THEN [v2 EXCEPT !.result_url = result_url] ELSE v2
    IN  IF Truthy(error_message) THEN [v3 EXCEPT !.error_message = error_message] ELSE v3

\* UPDATE tasks SET ... WHERE id = t (no row, no change), then commit
StoreStatus(t, status, result_url, error_message) ==
    IF Exists(t)
    THEN [tasks EXCEPT ![t] = StatusValues(tasks[t], status, result_url, error_message)]
    ELSE tasks

\* who holds the FAILED status of t after a write of `status` by `who`
Blame(t, status, who) ==
    [failedBy EXCEPT ![t] = IF status = FAILED /\ Exists(t) THEN who ELSE "nobody"]

LogEntry(t, level, message) == [task |-> t, level |-> level, message |-> message]

\* TaskProcessor.add_log
add_log(t, level, message) == logs \cup {LogEntry(t, level, message)}

\* ------------------------------------------------- the connection manager
\* notify_task_update: the message handed to broadcast_task_update
TaskUpdateMessage(t, status, progress, result_url, error_message) ==
    [type |-> "task_update", task_id |-> t, status |-> status, progress |-> progress,
     result_url |-> result_url, error_message |-> error_message]

MONITOR == 0
Publishers == {MONITOR} \cup RunIds

NoBroadcast == [active |-> FALSE, task |-> 0, msg |-> None, orig |-> {}, visited |-> {},
                cur |-> 0, sock |-> 0, gone |-> FALSE, disconnected |-> <<>>,
                sent |-> <<>>, onraise |-> "none", raised |-> FALSE, seq |-> 0]

\* a published notification as a socket is sent it, with its number in the
\* order of publication; `answer` is set when the socket is sent, after this
\* notification, the state of a task in answer to a subscribe: it holds how
\* many notifications had been published when the subscribe was handled.
\* `queue` holds the publishers whose send_text on the socket has not returned,
\* in the order of their calls: the sends on one socket return in that order.
NoLetter == [seq |-> 0, msg |-> None, answer |-> None, queue |-> <<>>]
Letter(box, n, msg) == [box EXCEPT !.seq = n, !.msg = msg, !.answer = None]

Subscribers(t) == IF t \in DOMAIN task_subscribers THEN task_subscribers[t] ELSE {}

\* dict without key k
DropKey(d, k) == [x \in DOMAIN d \ {k} |-> d[x]]
\* dict with d[k] = v
PutKey(d, k, v) == [x \in DOMAIN d \cup {k} |-> IF x = k THEN v ELSE d[x]]

\* A disconnect that forgets the registration but leaves the subscriber sets:
\* what ConnectionManager.disconnect would be without its loop over the tasks.
disconnect_registration_only(hub, c) ==
    [conns |-> IF c \in DOMAIN hub.conns THEN DropKey(hub.conns, c) ELSE hub.conns,
     subs |-> hub.subs]

\* ConnectionManager.disconnect applied to the pair (connections, subscribers)
disconnect(hub, c) ==
    LET conns == IF c \in DOMAIN hub.conns THEN DropKey(hub.conns, c) ELSE hub.conns
        keep == {t \in DOMAIN hub.subs : c \notin hub.subs[t] \/ hub.subs[t] \ {c} # {}}
    IN  [conns |-> conns, subs |-> [t \in keep |-> hub.subs[t] \ {c}]]

\* ConnectionManager.subscribe_to_task
subscribe_to_task(subs, c, t) == PutKey(subs, t, (IF t \in DOMAIN subs THEN subs[t] ELSE {}) \cup {c})

\* ConnectionManager.unsubscribe_from_task
\* an unsubscribe that leaves the empty set of the task in the map
unsubscribe_keeps_key(subs, c, t) ==
    IF t \in DOMAIN subs /\ c \in subs[t] THEN [subs EXCEPT ![t] = @ \ {c}] ELSE subs

unsubscribe_from_task(subs, c, t) ==
    IF t \in DOMAIN subs /\ c \in subs[t]
    THEN IF subs[t] \ {c} = {} THEN DropKey(subs, t) ELSE [subs EXCEPT ![t] = @ \ {c}]
    ELSE subs

Hub == [conns |-> active_connections, subs |-> task_subscribers]

\* disconnect called for each client of the list, in order
RECURSIVE DisconnectAll(_, _)
DisconnectAll(hub, cs) ==
    IF cs = <<>> THEN hub ELSE DisconnectAll(disconnect(hub, Head(cs)), Tail(cs))

\* what a call disconnect(c) finds: was c registered, which sets held it
DropRecord(hub, c) ==
    [client |-> c, registered |-> c \in DOMAIN hub.conns,
     topics |-> {t \in DOMAIN hub.subs : c \in hub.subs[t]}]
NoDrop == [client |-> 0, registered |-> FALSE, topics |-> {}]

\* the record of the last call made by DisconnectAll(hub, cs)
RECURSIVE LastDrop(_, _, _)
LastDrop(hub, cs, d) ==
    IF cs = <<>> THEN d
    ELSE LastDrop(disconnect(hub, Head(cs)), Tail(cs), DropRecord(hub, Head(cs)))

\* The set object a broadcast iterates was emptied and dropped from the dict
\* when its key disappears; the iterator then sees a set of another size.
MarkGone(newsubs) ==
    [p \in Publishers |->
        IF bcast[p].active /\ bcast[p].task \notin DOMAIN newsubs
        THEN [bcast[p] EXCEPT !.gone = TRUE] ELSE bcast[p]]

\* `for client_id in self.task_subscribers[task_id]` from the iterator's next()
\* to the next await (a send to a registered client) or to the end of the
\* loop.  Two iterations of one set meet its members in the same order: the
\* model takes the order of the client ids.  A client that is not registered
\* is passed over without suspending.  send_text hands the text to the socket
\* when it is called, so a socket receives in the order of the calls; a
\* socket whose peer is gone takes nothing.
Advance(b, subs, conns) ==
    LET live == IF b.task \in DOMAIN subs THEN subs[b.task] ELSE {}
        ahead == {c \in live : c > b.cur /\ c \in DOMAIN conns}
    IN  IF ahead = {}
        THEN {[b EXCEPT !.active = FALSE]}
        ELSE LET c == CHOOSE x \in ahead : \A y \in ahead : x <= y
             IN  {[b EXCEPT !.cur = c, !.sock = conns[c],
                            !.visited = @ \cup {x \in live : x > b.cur /\ x <= c},
                            !.sent = IF socks[conns[c]].alive THEN Append(@, c) ELSE @]}

\* the sockets after the broadcast of publisher p moved from b to b2: the send
\* that returned leaves the queue of its socket, the send that is called
\* enters the queue of its own and, on a socket whose peer is there, delivers
Wire(p, b, b2) ==
    LET left == IF b.sock = 0 THEN inbox ELSE [inbox EXCEPT ![b.sock].queue = Tail(@)]
        called == IF b2.active THEN [left EXCEPT ![b2.sock].queue = Append(@, p)] ELSE left
    IN  IF Len(b2.sent) > Len(b.sent)
        THEN [called EXCEPT ![b2.sock] = Letter(@, b2.seq, b2.msg)]
        ELSE called

\* a broadcast that is over: what it published, what it delivered, whom it
\* found broken, whether it raised
Finished(b, raised) ==
    [NoBroadcast EXCEPT !.task = b.task, !.orig = b.orig, !.sent = b.sent,
                        !.disconnected = b.disconnected, !.raised = raised, !.seq = b.seq]

\* ConnectionManager.broadcast_task_update up to its first await, called by
\* publisher p from a step that leaves the hub as it is.  The loop ends at
\* once when no subscriber is registered; nobody was noted, nothing to clean.
StartBroadcast(p, t, msg, onraise) ==
    IF t \notin DOMAIN task_subscribers
    THEN /\ bcast' = [bcast EXCEPT ![p] = NoBroadcast]
         /\ seq' = seq + 1
         /\ UNCHANGED inbox
    ELSE LET b0 == [NoBroadcast EXCEPT !.active = TRUE, !.task = t, !.msg = Some(msg),
                                       !.orig = task_subscribers[t], !.onraise = onraise,
                                       !.seq = seq + 1]
         IN  \E b \in Advance(b0, task_subscribers, active_connections) :
                /\ bcast' = [bcast EXCEPT ![p] = IF b.active THEN b ELSE Finished(b, FALSE)]
                /\ inbox' = Wire(p, b0, b)
                /\ seq' = seq + 1

Publishing(p) == bcast[p].active

\* --------------------------------------------------------- processor runs
NoRun == [task |-> 0, pc |-> "none", progress |-> 0, deadline |-> 0, wake |-> 0,
          error |-> None]

FreeRuns == {r \in RunIds : runs[r].pc = "none"}
NextFreeRun == CHOOSE r \in FreeRuns : \A q \in FreeRuns : r <= q

\* background_tasks.add_task(processor.process_task, task_id)
Schedule(t) == [runs EXCEPT ![NextFreeRun] = [NoRun EXCEPT !.task = t, !.pc = "scheduled"]]

\* the program counters inside asyncio.wait_for(self.simulate_processing(...))
SimPcs == {"sim_select", "sim_refresh", "sleep", "log_progress"}

\* a run that has begun process_task and has not returned from it
ActiveRun(r) == runs[r].pc \notin {"none", "scheduled", "done", "crashed"}

\* The run may take its next step: it is not inside a publish and, while it is
\* inside wait_for, the deadline has not passed.
CanStep(r, pc) ==
    /\ runs[r].pc = pc
    /\ ~Publishing(r)
    /\ pc \in SimPcs => now <= runs[r].deadline

\* process_task: update_task_status(task_id, PROCESSING)
StartRun(r) ==
    LET t == runs[r].task IN
    /\ CanStep(r, "scheduled")
    /\ tasks' = StoreStatus(t, PROCESSING, None, None)
    /\ failedBy' = Blame(t, PROCESSING, "processor")
    /\ StartBroadcast(r, t, TaskUpdateMessage(t, PROCESSING, Some(0), None, None), "exc")
    /\ runs' = [runs EXCEPT ![r].pc = "log_start"]
    /\ UNCHANGED <<reply, uploads, now, logs, mon, hubvars>>

\* process_task: add_log("Task processing started"), then wait_for(...) begins
LogStart(r) ==
    /\ CanStep(r, "log_start")
    /\ logs' = add_log(runs[r].task, "info", <<"Task", "processing", "started">>)
    /\ runs' = [runs EXCEPT ![r].pc = "sim_select", ![r].progress = 0,
                            ![r].deadline = now + TASK_TIMEOUT_SECONDS]
    /\ UNCHANGED <<wirevars, reply, uploads, now, tasks, mon, hubvars, bcast, failedBy>>

\* simulate_processing: select the task, raise when it is not there
SimSelect(r) ==
    LET t == runs[r].task IN
    /\ CanStep(r, "sim_select")
    /\ runs' = IF Exists(t)
               THEN [runs EXCEPT ![r].pc = "sim_refresh"]
               ELSE [runs EXCEPT ![r].pc = "exc", ![r].error = Some(TaskNotFoundMessage(t))]
    /\ UNCHANGED <<wirevars, reply, uploads, now, tasks, logs, mon, hubvars, bcast, failedBy>>

\* simulate_processing, top of the loop: refresh(task); return when FAILED;
\* otherwise asyncio.sleep(update_interval)
SimRefresh(r) ==
    LET t == runs[r].task IN
    /\ CanStep(r, "sim_refresh")
    /\ runs' = IF ~Exists(t)
               THEN [runs EXCEPT ![r].pc = "exc", ![r].error = Some(TaskNotFoundMessage(t))]
               ELSE IF tasks[t].status = FAILED
               THEN [runs EXCEPT ![r].pc = "complete"]
               ELSE [runs EXCEPT ![r].pc = "sleep", ![r].wake = now + update_interval]
    /\ UNCHANGED <<wirevars, reply, uploads, now, tasks, logs, mon, hubvars, bcast, failedBy>>

\* progress += progress_increment; progress = min(progress, 100)
NextProgress(p) == Min(p + progress_increment, 100)

\* where the loop goes after an update: the milestone log, the next
\* iteration, or out of the loop (`while progress < 100`)
AfterUpdate(p) == IF p \in {25, 50, 75, 100} THEN "log_progress"
                  ELSE IF p < 100 THEN "sim_refresh" ELSE "complete"

\* simulate_processing after the sleep: update_task_progress and the
\* "processing" notification
SimUpdate(r) ==
    LET t == runs[r].task
        p == NextProgress(runs[r].progress)
    IN
    /\ CanStep(r, "sleep")
    /\ now >= runs[r].wake
    /\ IF chk_progress(Some(p))
       THEN /\ tasks' = IF Exists(t) THEN [tasks EXCEPT ![t].progress = Some(p)] ELSE tasks
            /\ StartBroadcast(r, t, TaskUpdateMessage(t, PROCESSING, Some(p), None, None), "exc")
            /\ runs' = [runs EXCEPT ![r].progress = p, ![r].pc = AfterUpdate(p)]
       ELSE /\ runs' = [runs EXCEPT ![r].progress = p, ![r].pc = "exc",
                                    ![r].error = Some(<<"CHECK", "constraint", "failed">>)]
            /\ UNCHANGED <<tasks, bcast, wirevars>>
    /\ UNCHANGED <<reply, uploads, now, logs, mon, hubvars, failedBy>>

\* simulate_processing: the log written at 25, 50, 75 and 100
LogProgress(r) ==
    LET p == runs[r].progress IN
    /\ CanStep(r, "log_progress")
    /\ logs' = add_log(runs[r].task, "info", <<"Processing", ToString(p), "complete">>)
    /\ runs' = [runs EXCEPT ![r].pc = IF p < 100 THEN "sim_refresh" ELSE "complete"]
    /\ UNCHANGED <<wirevars, reply, uploads, now, tasks, mon, hubvars, bcast, failedBy>>

\* asyncio.wait_for: the deadline passes while simulate_processing is suspended
TimeoutFire(r) ==
    /\ runs[r].pc \in SimPcs
    /\ ~Publishing(r)
    /\ now >= runs[r].deadline
    /\ runs' = [runs EXCEPT ![r].pc = "timeout"]
    /\ UNCHANGED <<wirevars, reply, uploads, now, tasks, logs, mon, hubvars, bcast, failedBy>>

\* A completion that writes the status and tells nobody: what process_task
\* would do if update_task_status(COMPLETED) did not notify.
complete_silently(r) ==
    LET t == runs[r].task IN
    /\ CanStep(r, "complete")
    /\ tasks' = StoreStatus(t, COMPLETED, Some(ResultUrl(t)), None)
    /\ failedBy' = Blame(t, COMPLETED, "processor")
    /\ runs' = [runs EXCEPT ![r].pc = "log_complete"]
    /\ UNCHANGED <<wirevars, bcast, reply, uploads, now, logs, mon, hubvars>>

\* process_task after simulate_processing returned: update_task_status(COMPLETED)
Complete(r) ==
    LET t == runs[r].task IN
    /\ CanStep(r, "complete")
    /\ tasks' = StoreStatus(t, COMPLETED, Some(ResultUrl(t)), None)
    /\ failedBy' = Blame(t, COMPLETED, "processor")
    /\ StartBroadcast(r, t, TaskUpdateMessage(t, COMPLETED, Some(100), Some(ResultUrl(t)), None),
                      "exc")
    /\ runs' = [runs EXCEPT ![r].pc = "log_complete"]
    /\ UNCHANGED <<reply, uploads, now, logs, mon, hubvars>>

LogComplete(r) ==
    /\ CanStep(r, "log_complete")
    /\ logs' = add_log(runs[r].task, "info", <<"Task", "processing", "completed", "successfully">>)
    /\ runs' = [runs EXCEPT ![r].pc = "done"]
    /\ UNCHANGED <<wirevars, reply, uploads, now, tasks, mon, hubvars, bcast, failedBy>>

\* process_task, except asyncio.TimeoutError: update_task_status(FAILED)
TimeoutFail(r) ==
    LET t == runs[r].task IN
    /\ CanStep(r, "timeout")
    /\ tasks' = StoreStatus(t, FAILED, None, Some(TimeoutErrorMessage))
    /\ failedBy' = Blame(t, FAILED, "processor")
    /\ StartBroadcast(r, t, TaskUpdateMessage(t, FAILED, Some(0), None, Some(TimeoutErrorMessage)),
                      "exc")
    /\ runs' = [runs EXCEPT ![r].pc = "log_timeout"]
    /\ UNCHANGED <<reply, uploads, now, logs, mon, hubvars>>

LogTimeout(r) ==
    /\ CanStep(r, "log_timeout")
    /\ logs' = add_log(runs[r].task, "error", <<"Task", "processing", "timed", "out">>)
    /\ runs' = [runs EXCEPT ![r].pc = "done"]
    /\ UNCHANGED <<wirevars, reply, uploads, now, tasks, mon, hubvars, bcast, failedBy>>

\* process_task, except Exception as e: update_task_status(FAILED, str(e)).
\* Nothing catches what this handler raises.
ExcFail(r) ==
    LET t == runs[r].task IN
    /\ CanStep(r, "exc")
    /\ tasks' = StoreStatus(t, FAILED, None, runs[r].error)
    /\ failedBy' = Blame(t, FAILED, "processor")
    /\ StartBroadcast(r, t, TaskUpdateMessage(t, FAILED, Some(0), None, runs[r].error), "crashed")
    /\ runs' = [runs EXCEPT ![r].pc = "log_exc"]
    /\ UNCHANGED <<reply, uploads, now, logs, mon, hubvars>>

LogExc(r) ==
    /\ CanStep(r, "log_exc")
    /\ logs' = add_log(runs[r].task, "error", <<"Task", "processing", "failed">> \o Val(runs[r].error))
    /\ runs' = [runs EXCEPT ![r].pc = "done"]
    /\ UNCHANGED <<wirevars, reply, uploads, now, tasks, mon, hubvars, bcast, failedBy>>

\* str(e) of what the database driver raises
DatabaseErrorMessage == <<"OperationalError">>

\* the steps of process_task that execute a statement and commit
WritePcs == {"scheduled", "log_start", "sleep", "log_progress", "complete", "log_complete",
             "timeout", "log_timeout", "exc", "log_exc"}

\* update_task_status, update_task_progress or add_log raises from
\* db.execute / db.commit: nothing is written.  Inside the try the exception
\* reaches `except Exception as e`; inside that handler nothing catches it
\* and process_task ends.
DbFault(r) ==
    LET pc == runs[r].pc IN
    /\ pc \in WritePcs
    /\ CanStep(r, pc)
    /\ pc = "sleep" => now >= runs[r].wake
    /\ runs' = IF pc \in {"exc", "log_exc"}
               THEN [runs EXCEPT ![r].pc = "crashed"]
               ELSE [runs EXCEPT ![r].pc = "exc", ![r].error = Some(DatabaseErrorMessage)]
    /\ UNCHANGED <<wirevars, reply, uploads, now, tasks, logs, mon, hubvars, bcast, failedBy>>

\* ------------------------------------------------------ the timeout monitor
MonSleep == [pc |-> "sleep", sel |-> <<>>, i |-> 0, stamps |-> <<>>, progress |-> <<>>,
             wake |-> now + check_interval, running |-> mon.running]

\* the rows of the SELECT of check_timeouts
TimedOut ==
    {t \in DOMAIN tasks : /\ tasks[t].status = PROCESSING
                          /\ tasks[t].started_at # None
                          /\ Val(tasks[t].started_at) < now - TASK_TIMEOUT_SECONDS}

\* the orders in which a query without ORDER BY may return the rows of S
Orders(S) == {q \in [1..Cardinality(S) -> S] : \A t \in S : \E k \in DOMAIN q : q[k] = t}

\* A loop that does not look at `running`: `while True` in place of
\* `while self.running`.
sweep_while_stopped ==
    /\ mon.pc = "sleep"
    /\ now >= mon.wake
    /\ IF TimedOut = {}
       THEN mon' = MonSleep
       ELSE \E q \in Orders(TimedOut) :
               mon' = [pc |-> "loop", sel |-> q, i |-> 0, stamps |-> <<>>,
                       progress |-> [k \in DOMAIN q |-> tasks[q[k]].progress],
                       wake |-> mon.wake, running |-> mon.running]
    /\ UNCHANGED <<wirevars, reply, uploads, now, tasks, logs, runs, hubvars, bcast, failedBy>>

\* TaskMonitor.start, after the sleep: check_timeouts runs its SELECT.  The
\* session keeps the rows it loaded; nothing is written before the commit.
MonSelect ==
    /\ mon.pc = "sleep"
    /\ mon.running
    /\ now >= mon.wake
    /\ IF TimedOut = {}
       THEN mon' = MonSleep
       ELSE \E q \in Orders(TimedOut) :
               mon' = [pc |-> "loop", sel |-> q, i |-> 0, stamps |-> <<>>,
                       progress |-> [k \in DOMAIN q |-> tasks[q[k]].progress],
                       wake |-> mon.wake, running |-> mon.running]
    /\ UNCHANGED <<wirevars, reply, uploads, now, tasks, logs, runs, hubvars, bcast, failedBy>>

\* check_timeouts, one iteration of `for task in timed_out_tasks`: the row is
\* changed in the session, the log is added to the session, the notification
\* is published with the progress the session loaded.
MonLoop ==
    LET k == mon.i + 1
        t == mon.sel[k]
    IN
    /\ mon.pc = "loop"
    /\ ~Publishing(MONITOR)
    /\ mon.i < Len(mon.sel)
    /\ mon' = [mon EXCEPT !.i = k, !.stamps = Append(@, now)]
    /\ StartBroadcast(MONITOR, t,
                      TaskUpdateMessage(t, FAILED, mon.progress[k], None, Some(TimeoutErrorMessage)),
                      "rollback")
    /\ UNCHANGED <<reply, uploads, now, tasks, logs, runs, hubvars, failedBy>>

TimeoutLog(t) == LogEntry(t, "error", <<"Task", "automatically", "failed", "due", "to", "timeout">>)

\* the UPDATE the session flushes for a row it changed: only the columns the
\* sweep assigned are written, whatever the row holds by now
SweepValues(row, stamp) ==
    [row EXCEPT !.status = FAILED, !.error_message = Some(TimeoutErrorMessage),
                !.completed_at = Some(stamp)]

\* check_timeouts: `if timed_out_tasks: await db.commit()`.  The flush of a row
\* that is no longer there raises, and the except branch rolls back.
MonCommit ==
    LET sel == {mon.sel[k] : k \in DOMAIN mon.sel} IN
    /\ mon.pc = "loop"
    /\ ~Publishing(MONITOR)
    /\ mon.i = Len(mon.sel)
    /\ IF \A t \in sel : Exists(t)
       THEN /\ tasks' = [t \in DOMAIN tasks |->
                           IF t \in sel
                           THEN SweepValues(tasks[t],
                                    mon.stamps[CHOOSE k \in DOMAIN mon.sel : mon.sel[k] = t])
                           ELSE tasks[t]]
            /\ logs' = logs \cup {TimeoutLog(t) : t \in sel}
            /\ failedBy' = [t \in AllTasks |-> IF t \in sel THEN "monitor" ELSE failedBy[t]]
       ELSE UNCHANGED <<tasks, logs, failedBy>>
    /\ mon' = MonSleep
    /\ UNCHANGED <<wirevars, reply, uploads, now, runs, hubvars, bcast>>

\* TaskMonitor.start, after the sleep: `while self.running` is false and the
\* loop ends
MonExit ==
    /\ mon.pc = "sleep"
    /\ ~mon.running
    /\ now >= mon.wake
    /\ mon' = [mon EXCEPT !.pc = "ended"]
    /\ UNCHANGED <<wirevars, reply, uploads, now, tasks, logs, runs, hubvars, bcast, failedBy>>

\* lifespan after the yield: stop() clears `running`, monitor_task.cancel()
\* raises CancelledError where the monitor is suspended.  In asyncio.sleep and
\* in the awaits of the session nothing catches it (`except Exception` does
\* not): the sweep in flight is abandoned with its session and the task of the
\* monitor ends.  In send_text the bare `except:` of broadcast_task_update
\* catches it: the client is noted as disconnected and the sweep goes on.
Shutdown ==
    /\ mon.running
    /\ IF mon.pc = "loop" /\ Publishing(MONITOR)
       THEN /\ mon' = [mon EXCEPT !.running = FALSE]
            /\ bcast' = [bcast EXCEPT ![MONITOR].disconnected = Append(@, bcast[MONITOR].cur)]
       ELSE /\ mon' = [MonSleep EXCEPT !.pc = "ended", !.wake = mon.wake, !.running = FALSE]
            /\ UNCHANGED bcast
    /\ UNCHANGED <<wirevars, reply, uploads, now, tasks, logs, runs, hubvars, failedBy>>

\* --------------------------------------------------------- the task routes
\* upload_file: the task row is inserted and a run is scheduled
\* upload_file while the ids of `ids` last
upload(ids) ==
    LET t == Cardinality(DOMAIN tasks) + 1 IN
    /\ t \in ids
    /\ FreeRuns # {}
    /\ tasks' = PutKey(tasks, t, NewTask)
    /\ runs' = Schedule(t)
    /\ UNCHANGED <<wirevars, reply, uploads, now, logs, mon, hubvars, bcast, failedBy>>

upload_file == upload(TaskIds)

\* a reset that leaves the error message and the completion time in the row
retry_keeps_failure(row) ==
    [row EXCEPT !.status = PENDING, !.progress = Some(0), !.result_url = None,
                !.started_at = None]

\* retry_task: the reset of the row
RetryValues(row) ==
    [row EXCEPT !.status = PENDING, !.progress = Some(0), !.error_message = None,
                !.result_url = None, !.started_at = None, !.completed_at = None]

\* a retry that lets every status through
retry_any_status(status) == TRUE

\* retry_task: `task.status not in [FAILED, COMPLETED]` raises 400
Retryable(status) == status \in {FAILED, COMPLETED}

NoReply == [op |-> "none", task |-> 0, code |-> 0]
RetryReply(t, code) == [op |-> "retry", task |-> t, code |-> code]

\* retry_task (POST /tasks/{task_id}/retry): 404 for no task, 400 for a status
\* that cannot be retried, else the reset, the commit and a new run
retry_task(t) ==
    IF ~Exists(t)
    THEN /\ reply' = RetryReply(t, 404)
         /\ UNCHANGED <<now, tasks, logs, runs, mon, hubvars, bcast, failedBy, wirevars, uploads>>
    ELSE IF ~Retryable(tasks[t].status)
    THEN /\ reply' = RetryReply(t, 400)
         /\ UNCHANGED <<now, tasks, logs, runs, mon, hubvars, bcast, failedBy, wirevars, uploads>>
    ELSE /\ FreeRuns # {}
         /\ tasks' = [tasks EXCEPT ![t] = RetryValues(@)]
         /\ failedBy' = [failedBy EXCEPT ![t] = "nobody"]
         /\ runs' = Schedule(t)
         /\ reply' = RetryReply(t, 200)
         /\ UNCHANGED <<now, logs, mon, hubvars, bcast, wirevars, uploads>>

\* TaskUpdate: the request bodies the validation of the schema lets through.
\* A body is the set of fields it names and their values; None is JSON null.
UpdateFields == {"status", "progress"}
TaskUpdateValid(u) ==
    /\ u.fields \subseteq UpdateFields
    /\ IF u.status = None THEN TRUE ELSE Val(u.status) \in TaskStatus
    /\ IF u.progress = None THEN TRUE ELSE Val(u.progress) >= 0 /\ Val(u.progress) <= 100

\* model_dump(exclude_unset=True) and the setattr loop
ApplyUpdate(row, u) ==
    LET r1 == IF "status" \in u.fields THEN [row EXCEPT !.status = u.status] ELSE row
    IN  IF "progress" \in u.fields THEN [r1 EXCEPT !.progress = u.progress] ELSE r1

\* task_update.status: the attribute is None when the body does not name it
SentStatus(u) == IF "status" \in u.fields THEN u.status ELSE None

\* update_task: "Update timestamps based on status"
UpdateStamps(row, u) ==
    IF SentStatus(u) = Some(PROCESSING) /\ row.started_at = None
    THEN [row EXCEPT !.started_at = Some(now)]
    ELSE IF SentStatus(u) \in {Some(COMPLETED), Some(FAILED)}
         THEN [row EXCEPT !.completed_at = Some(now)]
         ELSE row

\* the row as update_task commits it; the status column holds the value
UpdatedRow(row, u) ==
    LET r == UpdateStamps(ApplyUpdate(row, u), u)
    IN  [r EXCEPT !.status = IF "status" \in u.fields THEN Val(u.status) ELSE row.status]

\* the request bodies tried
UpdateInputs ==
    {u \in [fields : SUBSET UpdateFields \ {{}},
            status : {None, Some(PROCESSING)},
            progress : {None, Some(-1), Some(50), Some(101)}] :
        /\ "status" \notin u.fields => u.status = None
        /\ "progress" \notin u.fields => u.progress = None}

\* request bodies that name a status and nothing else
StatusInputs ==
    {u \in [fields : {{"status"}}, status : {Some(st) : st \in TaskStatus}, progress : {None}] :
        TRUE}

\* update_task (PATCH /tasks/{task_id}), answered 200 or, when the response
\* cannot be built from the committed row, 500.  A body the schema rejects
\* (422) and a row the table rejects (NOT NULL status, chk_progress) change
\* nothing.
update_task(t, u) ==
    /\ Exists(t)
    /\ TaskUpdateValid(u)
    /\ "status" \in u.fields => u.status # None
    /\ chk_progress(ApplyUpdate(tasks[t], u).progress)
    /\ tasks' = [tasks EXCEPT ![t] = UpdatedRow(@, u)]
    /\ failedBy' = [failedBy EXCEPT ![t] =
                       IF tasks'[t].status = FAILED THEN IF tasks[t].status = FAILED THEN @ ELSE "api"
                       ELSE "nobody"]
    /\ UNCHANGED <<wirevars, reply, uploads, now, logs, runs, mon, hubvars, bcast>>

\* ------------------------------------------------- the WebSocket endpoint
\* One coroutine of websocket_endpoint per socket: the client id of its URL,
\* where it stands, whether the peer is still there, and the task named by the
\* subscribe message it is answering.
NoSock == [cid |-> 0, pc |-> "none", alive |-> TRUE, topic |-> 0, since |-> 0]

\* what the iterator of a set raises when the set changed under it
SetChangedMessage == <<"Set", "changed", "size", "during", "iteration">>

\* manager.connect: accept, then register the socket under the client id
WsConnect(s, c) ==
    /\ socks[s].pc = "none"
    /\ active_connections' = PutKey(active_connections, c, s)
    /\ socks' = [socks EXCEPT ![s].cid = c, ![s].pc = "open"]
    /\ UNCHANGED <<wirevars, reply, uploads, now, tasks, logs, runs, mon, task_subscribers, dropped, bcast, failedBy>>

\* the peer goes away: sends to the socket fail, its receive raises
PeerLost(s) ==
    /\ socks[s].pc \in {"open", "reply"}
    /\ socks[s].alive
    /\ socks' = [socks EXCEPT ![s].alive = FALSE]
    /\ UNCHANGED <<wirevars, reply, uploads, now, tasks, logs, runs, mon, active_connections, task_subscribers, dropped,
                   bcast, failedBy>>

\* {"type": "subscribe", "task_id": t}: subscribe_to_task, then the SELECT of
\* the task is awaited
WsSubscribe(s, t) ==
    /\ socks[s].pc = "open"
    /\ socks[s].alive
    /\ task_subscribers' = subscribe_to_task(task_subscribers, socks[s].cid, t)
    /\ socks' = [socks EXCEPT ![s].pc = "reply", ![s].topic = t, ![s].since = seq]
    /\ UNCHANGED <<wirevars, reply, uploads, now, tasks, logs, runs, mon, active_connections, dropped, bcast, failedBy>>

\* the hub after ConnectionManager.disconnect(c), called outside a broadcast
Disconnected(c) ==
    LET h == disconnect(Hub, c) IN
    /\ active_connections' = h.conns
    /\ task_subscribers' = h.subs
    /\ dropped' = DropRecord(Hub, c)
    /\ bcast' = MarkGone(h.subs)

\* "Send current task status": the SELECT returns, and `if task:`
\* send_personal_message sends the task's state on the socket registered
\* under the client id, if there is one.  A send that raises ends the endpoint
\* in `except Exception`, which disconnects.
WsReply(s) ==
    LET c == socks[s].cid
        t == socks[s].topic
        sends == Exists(t) /\ c \in DOMAIN active_connections
    IN
    /\ socks[s].pc = "reply"
    /\ IF sends /\ ~socks[active_connections[c]].alive
       THEN /\ Disconnected(c)
            /\ socks' = [socks EXCEPT ![s].pc = "closed", ![s].topic = 0, ![s].since = 0]
            /\ UNCHANGED inbox
       ELSE /\ socks' = [socks EXCEPT ![s].pc = "open", ![s].topic = 0, ![s].since = 0]
            /\ inbox' = IF sends
                        THEN [inbox EXCEPT ![active_connections[c]].answer = Some(socks[s].since)]
                        ELSE inbox
            /\ UNCHANGED <<active_connections, task_subscribers, dropped, bcast>>
    /\ UNCHANGED <<seq, reply, uploads, now, tasks, logs, runs, mon, failedBy>>

\* {"type": "unsubscribe", "task_id": t}
WsUnsubscribe(s, t) ==
    /\ socks[s].pc = "open"
    /\ socks[s].alive
    /\ task_subscribers' = unsubscribe_from_task(task_subscribers, socks[s].cid, t)
    /\ bcast' = MarkGone(task_subscribers')
    /\ UNCHANGED <<wirevars, reply, uploads, now, tasks, logs, runs, mon, active_connections, socks, dropped, failedBy>>

\* receive_text raises WebSocketDisconnect: manager.disconnect(client_id)
WsClose(s) ==
    /\ socks[s].pc = "open"
    /\ ~socks[s].alive
    /\ Disconnected(socks[s].cid)
    /\ socks' = [socks EXCEPT ![s].pc = "closed"]
    /\ UNCHANGED <<wirevars, reply, uploads, now, tasks, logs, runs, mon, failedBy>>

\* An exception of the sweep that nothing catches: what the monitor would do
\* without the `except Exception` of check_timeouts and of start.
raise_ends_loop(p, onraise) ==
    IF p = MONITOR
    THEN mon' = [mon EXCEPT !.pc = "ended"] /\ UNCHANGED runs
    ELSE /\ runs' = [runs EXCEPT ![p].pc = onraise, ![p].error = Some(SetChangedMessage)]
         /\ UNCHANGED mon

\* the publisher receives the exception of its notify_task_update: a run goes
\* to the handler that encloses the call, the sweep to its rollback
Raise(p, onraise) ==
    IF p = MONITOR
    THEN mon' = MonSleep /\ UNCHANGED runs
    ELSE /\ runs' = [runs EXCEPT ![p].pc = onraise, ![p].error = Some(SetChangedMessage)]
         /\ UNCHANGED mon

\* ------------------------------------------------------------ the uploads
\* settings.ALLOWED_EXTENSIONS, and the extensions of the file names tried
ALLOWED_EXTENSIONS == {".txt", ".md"}
Extensions == ALLOWED_EXTENSIONS \cup {".pdf"}

\* the file contents tried, and one more that is longer than MAX_FILE_SIZE
Contents == 1..MaxContents
TooLarge == MaxContents + 1

UploadIds == 1..MaxUploads

\* calculate_file_hash: the SHA-256 digest, one for each content
calculate_file_hash(c) == <<"sha256", c>>

\* an upload_file request: where it is, what it read, the task id it
\* generated and the status code it was answered with
NoUpload == [pc |-> "none", content |-> 0, ext |-> "", id |-> 0, code |-> 0]
NoUploads == [reqs |-> [q \in UploadIds |-> NoUpload], dir |-> <<>>,
              file_storage |-> {}, file_hash |-> <<>>]

\* save_upload_file: date_dir / f"{task_id}{file_ext}"
StoredPath(t, ext) == <<t, ext>>

Answer(q, code) ==
    [uploads EXCEPT !.reqs[q] = [@ EXCEPT !.pc = "done", !.code = code]]

\* upload_file up to the hash: the extension and the size are checked
UploadRead(q, c, ext) ==
    /\ uploads.reqs[q].pc = "none"
    /\ uploads' = IF ext \notin ALLOWED_EXTENSIONS \/ c = TooLarge
                  THEN Answer(q, 400)
                  ELSE [uploads EXCEPT !.reqs[q] = [@ EXCEPT !.pc = "select", !.content = c, !.ext = ext]]
    /\ UNCHANGED <<wirevars, reply, now, tasks, logs, runs, mon, hubvars, bcast, failedBy>>

\* select(Task).where(Task.file_hash == file_hash), the 400 for a row found,
\* else the task id: the hex digits of uuid4 are any of the ids
UploadSelect(q) ==
    LET u == uploads.reqs[q] IN
    /\ u.pc = "select"
    /\ IF \E t \in DOMAIN tasks : uploads.file_hash[t] = calculate_file_hash(u.content)
       THEN uploads' = Answer(q, 400)
       ELSE \E t \in AllTasks :
               uploads' = [uploads EXCEPT !.reqs[q] = [@ EXCEPT !.pc = "save", !.id = t]]
    /\ UNCHANGED <<wirevars, reply, now, tasks, logs, runs, mon, hubvars, bcast, failedBy>>

\* save_upload_file: open(file_path, 'wb') and write
UploadSave(q) ==
    LET u == uploads.reqs[q] IN
    /\ u.pc = "save"
    /\ uploads' = [uploads EXCEPT !.reqs[q] = [@ EXCEPT !.pc = "commit"],
                                  !.dir = PutKey(@, StoredPath(u.id, u.ext), u.content)]
    /\ UNCHANGED <<wirevars, reply, now, tasks, logs, runs, mon, hubvars, bcast, failedBy>>

\* db.add(task), db.add(file_storage), commit and add_task.  The INSERT of a
\* primary key the table has raises IntegrityError: nothing is inserted, the
\* request is answered 500 and no run is scheduled.
UploadCommit(q) ==
    LET u == uploads.reqs[q] IN
    /\ u.pc = "commit"
    /\ IF Exists(u.id)
       THEN /\ uploads' = Answer(q, 500)
            /\ UNCHANGED <<tasks, runs>>
       ELSE /\ FreeRuns # {}
            /\ tasks' = PutKey(tasks, u.id, NewTask)
            /\ runs' = Schedule(u.id)
            /\ uploads' = [Answer(q, 200) EXCEPT
                              !.file_hash = PutKey(@, u.id, calculate_file_hash(u.content)),
                              !.file_storage = @ \cup
                                  {[task_id |-> u.id, storage_path |-> StoredPath(u.id, u.ext),
                                    checksum |-> calculate_file_hash(u.content)]}]
    /\ UNCHANGED <<wirevars, reply, now, logs, mon, hubvars, bcast, failedBy>>

Upload(q) ==
    \/ \E c \in Contents \cup {TooLarge}, ext \in Extensions : UploadRead(q, c, ext)
    \/ UploadSelect(q) \/ UploadSave(q) \/ UploadCommit(q)

\* delete_task: os.remove of the stored files, and the rows that go with
\* the row of the task
Forget(t) ==
    LET gone == {f.storage_path : f \in {g \in uploads.file_storage : g.task_id = t}} IN
    [uploads EXCEPT !.dir = [x \in DOMAIN @ \ gone |-> @[x]],
                    !.file_storage = {g \in @ : g.task_id # t},
                    !.file_hash = [x \in DOMAIN @ \ {t} |-> @[x]]]


\* broadcast_task_update from the return of one send_text (the oldest in
\* flight on its socket) to the next await:
\* the send is done or has raised (caught, the client is noted), the iterator
\* moves on or raises, and after the loop the noted clients are disconnected.
BcStep(p) ==
    LET b == bcast[p]
        b1 == IF socks[b.sock].alive THEN b ELSE [b EXCEPT !.disconnected = Append(@, b.cur)]
    IN
    /\ b.active
    /\ Head(inbox[b.sock].queue) = p
    /\ IF b.gone \/ Cardinality(Subscribers(b.task)) # Cardinality(b.orig)
       THEN /\ bcast' = [bcast EXCEPT ![p] = Finished(b1, TRUE)]
            /\ Raise(p, b.onraise)
            /\ inbox' = Wire(p, b1, Finished(b1, TRUE))
            /\ UNCHANGED <<active_connections, task_subscribers, dropped>>
       ELSE \E b2 \in Advance(b1, task_subscribers, active_connections) :
               IF b2.active
               THEN /\ bcast' = [bcast EXCEPT ![p] = b2]
                    /\ inbox' = Wire(p, b1, b2)
                    /\ UNCHANGED <<runs, mon, active_connections, task_subscribers, dropped>>
               ELSE LET h == DisconnectAll(Hub, b2.disconnected) IN
                    /\ active_connections' = h.conns
                    /\ task_subscribers' = h.subs
                    /\ dropped' = LastDrop(Hub, b2.disconnected, dropped)
                    /\ bcast' = [q \in Publishers |->
                                    IF q = p THEN Finished(b2, FALSE) ELSE MarkGone(h.subs)[q]]
                    /\ inbox' = Wire(p, b1, b2)
                    /\ UNCHANGED <<runs, mon>>
    /\ UNCHANGED <<seq, reply, uploads, now, tasks, logs, socks, failedBy>>

Init ==
    /\ now = 0
    /\ tasks = <<>>
    /\ logs = {}
    /\ runs = [r \in RunIds |-> NoRun]
    /\ mon = [pc |-> "sleep", sel |-> <<>>, i |-> 0, stamps |-> <<>>, progress |-> <<>>,
              wake |-> 0, running |-> TRUE]
    /\ active_connections = <<>>
    /\ task_subscribers = <<>>
    /\ socks = [s \in AllSocks |-> NoSock]
    /\ dropped = NoDrop
    /\ bcast = [p \in Publishers |-> NoBroadcast]
    /\ failedBy = [t \in AllTasks |-> "nobody"]
    /\ reply = NoReply
    /\ inbox = [s \in AllSocks |-> NoLetter]
    /\ seq = 0
    /\ uploads = NoUploads

Tick ==
    /\ now + TickSeconds <= MaxTime
    /\ now' = now + TickSeconds
    /\ UNCHANGED <<tasks, logs, runs, mon, hubvars, bcast, failedBy, reply, uploads, wirevars>>

RunStep(r) ==
    \/ StartRun(r) \/ LogStart(r) \/ SimSelect(r) \/ SimRefresh(r) \/ SimUpdate(r)
    \/ LogProgress(r) \/ TimeoutFire(r) \/ Complete(r) \/ LogComplete(r)
    \/ TimeoutFail(r) \/ LogTimeout(r)

Next ==
    \/ Tick
    \/ upload_file
    \/ \E t \in TaskIds : retry_task(t)
    \/ \E r \in RunIds : RunStep(r)
    \/ MonSelect \/ MonLoop \/ MonCommit

Spec == Init /\ [][Next]_vars

\* One upload when the server starts, its runs, the sweeps and the retries,
\* together with PATCH requests on the task.
NextApi ==
    \/ now + TickSeconds <= ShortTime /\ Tick
    \/ now = 0 /\ upload_file
    \/ \E t \in TaskIds : retry_task(t)
    \/ \E r \in RunIds : RunStep(r)
    \/ MonSelect \/ MonLoop \/ MonCommit
    \/ \E t \in TaskIds, u \in UpdateInputs : update_task(t, u)

SpecApi == Init /\ [][NextApi]_vars

\* One upload when the server starts, its run and the sweeps, together with
\* PATCH requests that set the status of the task.
NextPatch ==
    \/ now + TickSeconds <= ShortTime /\ Tick
    \/ now = 0 /\ upload_file
    \/ \E r \in RunIds : RunStep(r)
    \/ MonSelect \/ MonLoop \/ MonCommit
    \/ \E t \in TaskIds, u \in StatusInputs : update_task(t, u)

SpecPatch == Init /\ [][NextPatch]_vars

\* A run that has nothing to do until the clock advances: it has not begun or
\* has ended, or it is in asyncio.sleep before both its wake-up and the
\* deadline of wait_for.
Waiting(r) ==
    \/ runs[r].pc \in {"none", "done", "crashed"}
    \/ /\ runs[r].pc = "sleep"
       /\ now < runs[r].wake
       /\ now < runs[r].deadline

\* the monitor is in asyncio.sleep(check_interval)
MonWaiting == mon.pc = "sleep" /\ now < mon.wake

\* The event loop runs every coroutine that is ready before a sleep of tens
\* of seconds ends: the clock advances when all of them wait.
TickLive ==
    /\ \A r \in RunIds : Waiting(r)
    /\ MonWaiting
    /\ Tick

\* process_task with its `except Exception` handler
LiveStep(r) == RunStep(r) \/ ExcFail(r) \/ LogExc(r)

MonStep == MonSelect \/ MonLoop \/ MonCommit

\* Uploads when the server starts, their runs and the sweeps, with a database
\* that may fail any write of a run.
NextLive ==
    \/ TickLive
    \/ now = 0 /\ upload_file
    \/ \E r \in RunIds : LiveStep(r)
    \/ \E r \in RunIds : DbFault(r)
    \/ MonStep

\* The processor and the monitor keep being scheduled and time passes; the
\* database is not obliged to fail.
SpecLive ==
    /\ Init /\ [][NextLive]_vars
    /\ WF_vars(TickLive)
    /\ \A r \in RunIds : WF_vars(LiveStep(r))
    /\ WF_vars(MonStep)

\* The endpoints alone: clients connect, subscribe, unsubscribe and go away.
NextEndpoints ==
    \/ \E s \in SockIds, c \in ClientIds : WsConnect(s, c)
    \/ \E s \in SockIds : PeerLost(s) \/ WsReply(s) \/ WsClose(s)
    \/ \E s \in SockIds, t \in TopicIds : WsSubscribe(s, t) \/ WsUnsubscribe(s, t)

SpecEndpoints == Init /\ [][NextEndpoints]_vars

\* One upload when the server starts, its run and the sweeps, and one client
\* that follows the task.
Follower == 1
NextFollow ==
    \/ now + TickSeconds <= ShortTime /\ Tick
    \/ now = 0 /\ upload_file
    \/ \E r \in RunIds : RunStep(r) \/ ExcFail(r) \/ LogExc(r)
    \/ MonSelect \/ MonLoop \/ MonCommit
    \/ WsConnect(Follower, Follower) \/ PeerLost(Follower) \/ WsReply(Follower)
    \/ WsClose(Follower)
    \/ \E t \in TaskIds : WsSubscribe(Follower, t) \/ WsUnsubscribe(Follower, t)
    \/ \E p \in Publishers : BcStep(p)

SpecFollow == Init /\ [][NextFollow]_vars

\* The first notification of a run (and the one of its failure handler),
\* published to clients that each connect once under their own id.
NextPublish ==
    \/ upload_file
    \/ \E r \in RunIds : StartRun(r) \/ ExcFail(r) \/ LogExc(r)
    \/ \E s \in SockIds : WsConnect(s, s) \/ PeerLost(s) \/ WsReply(s) \/ WsClose(s)
    \/ \E s \in SockIds, t \in TaskIds : WsSubscribe(s, t) \/ WsUnsubscribe(s, t)
    \/ \E p \in Publishers : BcStep(p)

SpecPublish == Init /\ [][NextPublish]_vars

\* One upload when the server starts, its run and the sweeps, and two clients
\* that connect and subscribe before the upload; the first may connect again,
\* on a new socket, under the id it has.
NextOrder ==
    \/ now + TickSeconds <= ShortTime /\ Tick
    \/ now = 0 /\ upload_file
    \/ \E r \in RunIds : RunStep(r)
    \/ MonSelect \/ MonLoop \/ MonCommit
    \/ \E s \in SockIds : (tasks = <<>> /\ WsConnect(s, s)) \/ WsReply(s)
    \/ \E s \in SockIds, t \in TaskIds : tasks = <<>> /\ WsSubscribe(s, t)
    \/ 1 \in DOMAIN active_connections /\ WsConnect(Again, 1)
    \/ \E p \in Publishers : BcStep(p)

SpecOrder == Init /\ [][NextOrder]_vars

\* Uploads when the server starts, runs that begin at once and then make no
\* progress, the sweeps, and two clients that connect before the uploads: the
\* first subscribes then, the second when the clock has reached ShortTime.
NextSweep ==
    \/ now + TickSeconds <= ShortTime /\ Tick
    \/ now = 0 /\ upload(AllTasks)
    \/ \E r \in RunIds : (now = 0 /\ StartRun(r)) \/ ExcFail(r) \/ LogExc(r)
    \/ MonSelect \/ MonLoop \/ MonCommit
    \/ \E s \in SockIds : (tasks = <<>> /\ WsConnect(s, s)) \/ WsReply(s)
    \/ \E t \in AllTasks : tasks = <<>> /\ WsSubscribe(1, t)
    \/ \E t \in AllTasks : now = ShortTime /\ WsSubscribe(2, t)
    \/ \E p \in Publishers : BcStep(p)

SpecSweep == Init /\ [][NextSweep]_vars

\* the monitor has nothing to do until the clock advances
MonIdle == MonWaiting \/ mon.pc = "ended"

\* a clock that runs further, to where a sweep follows the sweep that found an
\* overdue task; it advances when every coroutine waits
TickLong ==
    /\ now + TickSeconds <= LongTime
    /\ MonIdle
    /\ \A r \in RunIds : runs[r].pc \notin {"scheduled", "exc", "log_exc"}
    /\ \A p \in Publishers : ~Publishing(p)
    /\ now' = now + TickSeconds
    /\ UNCHANGED <<tasks, logs, runs, mon, hubvars, bcast, failedBy, reply, uploads, wirevars>>

\* One upload within the first tick, a run that begins and then makes no
\* progress, the monitor until the shutdown of the application, and two
\* clients: one subscribes before the upload, the other at any time.
NextMonitor ==
    \/ TickLong
    \/ now <= TickSeconds /\ upload_file
    \/ \E r \in RunIds : StartRun(r) \/ ExcFail(r) \/ LogExc(r)
    \/ MonSelect \/ MonLoop \/ MonCommit \/ MonExit
    \/ now + check_interval <= LongTime /\ Shutdown
    \/ \E s \in SockIds : (tasks = <<>> /\ WsConnect(s, s)) \/ WsReply(s)
    \/ \E t \in TaskIds : tasks = <<>> /\ WsSubscribe(1, t)
    \/ \E t \in TaskIds : WsSubscribe(2, t)
    \/ \E p \in Publishers : BcStep(p)

SpecMonitor == Init /\ [][NextMonitor]_vars

\* The same with every coroutine scheduled again and again, every send_text
\* returning and time passing.
SpecStop ==
    /\ SpecMonitor
    /\ WF_vars(TickLong)
    /\ WF_vars(MonStep)
    /\ WF_vars(MonExit)
    /\ \A r \in RunIds : WF_vars(StartRun(r) \/ ExcFail(r) \/ LogExc(r))
    /\ \A p \in Publishers : WF_vars(BcStep(p))

\* ------------------------------------------------------------------ claims
RunsOf(t) == {r \in RunIds : runs[r].task = t /\ ActiveRun(r)}
Both == DOMAIN tasks \cap DOMAIN tasks'
IsMonCommit == mon.pc = "loop" /\ ~Publishing(MONITOR) /\ mon.i = Len(mon.sel) /\ mon'.pc = "sleep"

\* C1: under every interleaving of processor runs, sweeps and retries a task's
\* status changes only Pending->Processing, Processing->Completed,
\* Processing->Failed, or Completed/Failed->Pending.
LifecycleChanges ==
    {<<PENDING, PROCESSING>>, <<PROCESSING, COMPLETED>>, <<PROCESSING, FAILED>>,
     <<COMPLETED, PENDING>>, <<FAILED, PENDING>>}
C1_OnlyLifecycleChanges ==
    [][\A t \in Both : \/ tasks'[t].status = tasks[t].status
                       \/ <<tasks[t].status, tasks'[t].status>> \in LifecycleChanges]_vars

\* C2: a task the monitor failed while a run for it is in progress stays
\* Failed with its error message: no run writes Completed over it.
C2_MonitorFailureStands ==
    [][\A t \in Both :
          (tasks[t].status = FAILED /\ failedBy[t] = "monitor" /\ RunsOf(t) # {})
          => /\ tasks'[t].status # COMPLETED
             /\ tasks'[t].status = FAILED => tasks'[t].error_message = tasks[t].error_message]_vars

\* C3: each task has at most one active processing run at every moment.
C3_AtMostOneActiveRun == \A t \in TaskIds : Cardinality(RunsOf(t)) <= 1

\* a run of an earlier attempt is still asleep in its loop while the run of the
\* retry is in its own
C3_TwoRunsInLoop ==
    \E r1, r2 \in RunIds : /\ r1 # r2
                           /\ runs[r1].task = runs[r2].task
                           /\ runs[r1].pc = "sleep"
                           /\ runs[r2].pc \in SimPcs

\* C5: while a task is Processing its stored progress never decreases.
C5_ProgressMonotone ==
    [][\A t \in Both :
          (/\ tasks[t].status = PROCESSING /\ tasks'[t].status = PROCESSING
           /\ tasks[t].progress # None /\ tasks'[t].progress # None)
          => Val(tasks'[t].progress) >= Val(tasks[t].progress)]_vars

\* C7: a sweep commits only over the status it read: no committed write of a
\* processor run lies between the sweep's SELECT and its commit; in particular
\* the sweep never writes Failed over a Completed set after its read.
C7_SweepCommitsOverWhatItRead ==
    [][IsMonCommit => \A k \in DOMAIN mon.sel :
                         Exists(mon.sel[k]) => tasks[mon.sel[k]].status = PROCESSING]_vars

\* a sweep has written Failed over the Completed of a run that finished
C7_FailedOverCompleted ==
    \E t \in DOMAIN tasks : /\ tasks[t].status = FAILED /\ failedBy[t] = "monitor"
                            /\ tasks[t].result_url # None

\* C4: in every reachable state every task's stored progress is a number
\* between 0 and 100, external updates included.
C4_ProgressInRange ==
    \A t \in DOMAIN tasks :
        /\ tasks[t].progress # None
        /\ Val(tasks[t].progress) >= 0
        /\ Val(tasks[t].progress) <= 100

\* a PATCH has stored no progress at all for a task
C4_ProgressNull == \E t \in DOMAIN tasks : tasks[t].progress = None

\* the message names the time limit: the word timeout, or the maximum
\* processing time
MentionsTimeout(o) ==
    /\ o # None
    /\ \E i \in DOMAIN Val(o) : Val(o)[i] \in {"timeout", "maximum"}

SweepEnds == mon.pc = "loop" /\ mon'.pc = "sleep"

\* C6: when a sweep ends, every task it selected as overdue is Failed with an
\* error message that mentions the timeout.
C6_SweepFailsOverdue ==
    [][SweepEnds => \A k \in DOMAIN mon.sel :
                       LET t == mon.sel[k] IN
                       t \in DOMAIN tasks' =>
                           /\ tasks'[t].status = FAILED
                           /\ MentionsTimeout(tasks'[t].error_message)]_vars

\* the step of a run that handles the exception of a notification
HandlesNotifyFailure(r) ==
    /\ runs[r].pc = "exc"
    /\ runs[r].error = Some(SetChangedMessage)
    /\ runs'[r].pc # "exc"

\* C8: a failure to deliver a notification never overrides a persisted state:
\* the run that handles it leaves the status of its task as it is.
C8_NotifyFailureKeepsState ==
    [][\A r \in RunIds : \A t \in Both :
          (HandlesNotifyFailure(r) /\ runs[r].task = t) => tasks'[t].status = tasks[t].status]_vars

\* a task that ran to 100 and was Completed with its result has been made
\* Failed by a failed notification
C8_CompletedOverridden ==
    \E t \in DOMAIN tasks : /\ tasks[t].status = FAILED
                            /\ tasks[t].error_message = Some(SetChangedMessage)
                            /\ tasks[t].result_url # None
                            /\ tasks[t].progress = Some(100)

ClosesSock(s) == socks[s].pc # "closed" /\ socks'[s].pc = "closed"
HubAfter == [conns |-> active_connections', subs |-> task_subscribers']
Absent(h, c) == c \notin DOMAIN h.conns /\ \A t \in DOMAIN h.subs : c \notin h.subs[t]

\* C9: after disconnect(c), c is not registered and in no subscriber set;
\* disconnect(c) once more changes nothing, nor does it for a c that was
\* neither registered nor subscribed.
C9_DisconnectRemovesAll ==
    [][\A s \in SockIds :
          ClosesSock(s) =>
              LET c == socks[s].cid IN
              /\ Absent(HubAfter, c)
              /\ disconnect(HubAfter, c) = HubAfter
              /\ Absent(Hub, c) => HubAfter = Hub]_vars

\* a registered client that was subscribed to two tasks has been disconnected
\* while another client stays subscribed
C9_DisconnectedFromTwo ==
    /\ dropped.registered
    /\ Cardinality(dropped.topics) = 2
    /\ Absent(Hub, dropped.client)
    /\ DOMAIN task_subscribers = TopicIds

Elems(q) == {q[i] : i \in DOMAIN q}
BroadcastEnds(p) == bcast[p].active /\ ~bcast'[p].active

\* C10: a publish to two subscribers in which the send to one of them fails
\* still delivers to the other, does not raise, removes the failed one from
\* the registry and every subscriber set, and leaves the other as it was.
C10_FailedSendIsolated ==
    [][\A p \in Publishers :
          (/\ BroadcastEnds(p)
           /\ Cardinality(bcast[p].orig) = 2
           /\ bcast'[p].disconnected # <<>>)
          => LET failed == Elems(bcast'[p].disconnected)
                 others == bcast[p].orig \ failed
             IN  /\ ~bcast'[p].raised
                 /\ others \subseteq Elems(bcast'[p].sent)
                 /\ \A a \in failed : Absent(HubAfter, a)
                 /\ \A b \in others :
                       /\ (b \in DOMAIN active_connections) = (b \in DOMAIN active_connections')
                       /\ \A t \in TopicIds :
                             (b \in Subscribers(t)) =
                             (t \in DOMAIN task_subscribers' /\ b \in task_subscribers'[t])]_vars

\* a publish to two subscribers raised after the send to one of them failed,
\* and the other received nothing
C10_RaisedAndUndelivered ==
    \E p \in Publishers : /\ bcast[p].raised
                          /\ Cardinality(bcast[p].orig) = 2
                          /\ Len(bcast[p].disconnected) = 1
                          /\ bcast[p].sent = <<>>

SubscribersAfter(t) == IF t \in DOMAIN task_subscribers' THEN task_subscribers'[t] ELSE {}

\* C11: while a broadcast for a task is between its first and its last send,
\* no subscribe, unsubscribe or disconnect changes that task's subscriber set.
C11_SubscriberSetExclusive ==
    [][\A p \in Publishers :
          (bcast[p].active /\ bcast'[p].active)
          => SubscribersAfter(bcast[p].task) = Subscribers(bcast[p].task)]_vars

\* a publish did not complete: the set changed under it after it had
\* delivered to one subscriber, and the iterator raised
C11_PublishRaisedMidway ==
    \E p \in Publishers : bcast[p].raised /\ bcast[p].sent # <<>>

\* the step schedules a processor run for task t
SchedulesRun(t) ==
    \E r \in RunIds : runs[r].pc = "none" /\ runs'[r].pc = "scheduled" /\ runs'[r].task = t

\* C12: a retry of a task that is Pending or Processing is answered with an
\* error, leaves every field of the task as it is and schedules no run.
C12_RetryRejected ==
    [][\A t \in DOMAIN tasks :
          tasks[t].status \in {PENDING, PROCESSING}
          => /\ ~SchedulesRun(t)
             /\ (reply' # reply /\ reply'.task = t)
                => /\ reply' = RetryReply(t, 400)
                   /\ tasks' = tasks
                   /\ runs' = runs
                   /\ logs' = logs]_vars

\* a retry of a task that was not finished has been answered 400: the task is
\* running on, and its first run is the only one there is
C12_RejectedNoNewRun ==
    /\ reply = RetryReply(reply.task, 400)
    /\ reply.task \in DOMAIN tasks
    /\ tasks[reply.task].status = PROCESSING
    /\ tasks[reply.task].progress = Some(progress_increment)
    /\ Cardinality({r \in RunIds : runs[r].task = reply.task}) = 1

AcceptedRetry(t) == t \in DOMAIN tasks /\ SchedulesRun(t) /\ reply' = RetryReply(t, 200)
NewlyScheduled(t) ==
    {r \in RunIds : runs[r].pc = "none" /\ runs'[r].pc = "scheduled" /\ runs'[r].task = t}

C14_AnswerBeforeLiveUpdates ==
    \A s \in SockIds :
        IF inbox[s].answer = None THEN TRUE ELSE inbox[s].seq <= Val(inbox[s].answer)

\* a socket is sent the state of the task after the notification of the first
\* progress update, which was published after the socket subscribed
C14_AnsweredAfterUpdate ==
    \E s \in SockIds :
        /\ inbox[s].answer # None
        /\ inbox[s].msg # None
        /\ inbox[s].seq > IF inbox[s].answer = None THEN seq ELSE Val(inbox[s].answer)
        /\ IF inbox[s].msg = None THEN FALSE
           ELSE Val(inbox[s].msg).progress = Some(progress_increment)

\* C15: the notifications of a task reach each subscriber in the order in
\* which they were published: the number of the last notification a socket
\* was sent never goes down.
C15_DeliveredInPublishOrder ==
    [][\A s \in AllSocks : inbox'[s].seq >= inbox[s].seq]_vars

\* a client with one socket was sent the notification of a publisher that is
\* through, and after it a notification that was published before it
C15_EarlierArrivedLater ==
    \E s \in SockIds, p \in Publishers :
        /\ socks[s].pc = "open"
        /\ \A x \in AllSocks \ {s} : socks[x].cid # socks[s].cid
        /\ ~bcast[p].active
        /\ socks[s].cid \in Elems(bcast[p].sent)
        /\ inbox[s].seq > 0
        /\ inbox[s].seq < bcast[p].seq

\* the progress updates of a run that reaches 100
NumUpdates == (100 + progress_increment - 1) \div progress_increment

\* the n-th notification of a successful run
Expected(n, t) ==
    IF n = 1 THEN TaskUpdateMessage(t, PROCESSING, Some(0), None, None)
    ELSE IF n <= NumUpdates + 1
    THEN TaskUpdateMessage(t, PROCESSING, Some(Min((n - 1) * progress_increment, 100)), None, None)
    ELSE TaskUpdateMessage(t, COMPLETED, Some(100), Some(ResultUrl(t)), None)

\* socket s is the one socket of a client that is subscribed to task t
Follows(s, t) ==
    /\ socks[s].pc \in {"open", "reply"}
    /\ socks[s].cid \in Subscribers(t)
    /\ \A x \in AllSocks \ {s} : socks[x].cid # socks[s].cid

\* t is the only task, and no sweep has published anything
OnlyRunPublished(t) == DOMAIN tasks \subseteq {t} /\ bcast[MONITOR].seq = 0

\* what a follower of task t holds while only the run has published: the
\* notification that its number calls for, and all k+2 of them, the last one
\* completed/100/result_url, once the run is through with the task completed
FollowerHolds(s, t) ==
    (Follows(s, t) /\ OnlyRunPublished(t)) =>
        /\ IF inbox[s].msg = None THEN inbox[s].seq = 0
           ELSE Val(inbox[s].msg).status # FAILED
                    => Val(inbox[s].msg) = Expected(inbox[s].seq, t)
        /\ (/\ Exists(t)
            /\ tasks[t].status = COMPLETED
            /\ \E r \in RunIds : runs[r].task = t /\ runs[r].pc = "done")
              => /\ inbox[s].seq = NumUpdates + 2
                 /\ inbox[s].msg = Some(Expected(NumUpdates + 2, t))

\* C16: a subscriber that follows a task from Pending through a successful
\* run with k progress updates is sent exactly k+2 notifications in order:
\* processing, the k updates with increasing progress, then completed with
\* progress 100 and the result_url; none twice, none missing.
C16_SuccessfulRunNotifications ==
    [][\A s \in SockIds, t \in TaskIds :
          /\ (Follows(s, t) /\ OnlyRunPublished(t)')
                => inbox'[s].seq \in {inbox[s].seq, inbox[s].seq + 1}
          /\ FollowerHolds(s, t)']_vars

\* the second of two followers holds the fifth and last notification of a run
\* that completed the task after three progress updates
C16_FollowerHoldsAllFive ==
    /\ Follows(2, 1) /\ Follows(1, 1)
    /\ OnlyRunPublished(1)
    /\ Exists(1)
    /\ tasks[1].status = COMPLETED
    /\ runs[1].pc = "done"
    /\ inbox[2].seq = 5
    /\ inbox[2].msg = Some(TaskUpdateMessage(1, COMPLETED, Some(100), Some(ResultUrl(1)), None))

\* C17: every entry into Completed sets completed_at and result_url, leaves
\* no error_message behind and publishes a notification in the same step.
C17_CompletedEntryClean ==
    [][\A t \in Both :
          (tasks[t].status # COMPLETED /\ tasks'[t].status = COMPLETED)
          => /\ tasks'[t].completed_at = Some(now)
             /\ tasks'[t].result_url = Some(ResultUrl(t))
             /\ tasks'[t].error_message = None
             /\ seq' = seq + 1]_vars

\* a task is Completed, with its result_url, and still carries the error
\* message of the sweep that had failed it
C17_CompletedWithStaleError ==
    \E t \in DOMAIN tasks :
        /\ tasks[t].status = COMPLETED
        /\ tasks[t].result_url = Some(ResultUrl(t))
        /\ tasks[t].error_message = Some(TimeoutErrorMessage)
        /\ TimeoutLog(t) \in logs

\* C18: a task whose status is Failed has a non-empty error_message,
\* whichever operation failed it.
C18_FailedHasErrorMessage ==
    \A t \in DOMAIN tasks : tasks[t].status = FAILED => Truthy(tasks[t].error_message)

\* a request set the status of a task to failed: the task is Failed, stamped
\* as finished, and has no error_message
C18_FailedByRequest ==
    \E t \in DOMAIN tasks :
        /\ tasks[t].status = FAILED
        /\ failedBy[t] = "api"
        /\ tasks[t].completed_at # None
        /\ tasks[t].error_message = None

\* C19: in every reachable state a task has a result_url only if its status
\* is Completed and an error_message only if its status is Failed.
C19_OutcomeFieldsMatchStatus ==
    \A t \in DOMAIN tasks :
        /\ tasks[t].result_url # None => tasks[t].status = COMPLETED
        /\ tasks[t].error_message # None => tasks[t].status = FAILED

\* a task that its run completed and that a sweep then failed: it is Failed and
\* still has the result_url of the completion
C19_FailedWithResult ==
    \E t \in DOMAIN tasks :
        /\ tasks[t].status = FAILED
        /\ tasks[t].result_url = Some(ResultUrl(t))
        /\ tasks[t].error_message = Some(TimeoutErrorMessage)
        /\ failedBy[t] = "monitor"

\* a run of process_task has been scheduled for task t
HasRun(t) == \E r \in RunIds : runs[r].task = t /\ runs[r].pc # "none"

Terminal(t) == t \in DOMAIN tasks /\ tasks[t].status \in {COMPLETED, FAILED}

\* C20: every task for which a run has been scheduled eventually is Completed
\* or Failed, also when a fault occurs during processing or while the fault is
\* being recorded.
C20_ScheduledRunEnds == \A t \in TaskIds : HasRun(t) ~> Terminal(t)

\* the first write of a run failed and so did the write of its handler: the run
\* has ended and the task is Pending, which no sweep selects
C20_PendingAfterRunEnded ==
    \E t \in DOMAIN tasks, r \in RunIds :
        /\ runs[r].task = t
        /\ runs[r].pc = "crashed"
        /\ tasks[t].status = PENDING
        /\ tasks[t].started_at = None
        /\ now = MaxTime

\* a task that was set Processing is Completed or Failed in the end: a run
\* that ended early leaves it to the sweep
ProcessingEnds == \A t \in TaskIds : (t \in DOMAIN tasks /\ tasks[t].status = PROCESSING) ~> Terminal(t)

\* the log entry of the transition a notification announces has been written
Logged(m) ==
    IF m.status = PROCESSING
    THEN m.progress = Some(0) =>
            LogEntry(m.task_id, "info", <<"Task", "processing", "started">>) \in logs
    ELSE IF m.status = COMPLETED
    THEN LogEntry(m.task_id, "info", <<"Task", "processing", "completed", "successfully">>) \in logs
    ELSE \E e \in logs : e.task = m.task_id /\ e.level = "error"

\* C21: a subscriber never holds the notification of a transition (entry into
\* Processing, Completed or Failed) whose log entry has not been written yet.
C21_LogBeforeNotification ==
    \A s \in AllSocks : IF inbox[s].msg = None THEN TRUE ELSE Logged(Val(inbox[s].msg))

\* a subscriber has been sent the notification of the entry into Processing
\* while the run has not yet written "Task processing started"
C21_NotifiedBeforeLogged ==
    \E s \in SockIds, r \in RunIds :
        /\ runs[r].pc = "log_start"
        /\ socks[s].pc = "open"
        /\ inbox[s].msg = Some(TaskUpdateMessage(runs[r].task, PROCESSING, Some(0), None, None))
        /\ \A e \in logs : e.task # runs[r].task

\* C22: within one attempt of a task completed_at is written once: a task
\* that has a completed_at keeps it until a retry clears it.
C22_CompletedAtWrittenOnce ==
    [][\A t \in Both : tasks[t].completed_at # None =>
            tasks'[t].completed_at \in {tasks[t].completed_at, None}]_vars

\* the only run of a task failed it at its deadline and wrote its log, and a
\* sweep had failed the task and written its log before
C22_FailedByBoth ==
    \E t \in DOMAIN tasks :
        /\ \A r \in RunIds : runs[r].pc # "none" => r = 1
        /\ runs[1].task = t
        /\ runs[1].pc = "done"
        /\ tasks[t].status = FAILED
        /\ failedBy[t] = "processor"
        /\ TimeoutLog(t) \in logs
        /\ LogEntry(t, "error", <<"Task", "processing", "timed", "out">>) \in logs

\* C23: started_at is written once per attempt: a task that has a started_at
\* keeps it, whatever puts the task into Processing again, until a retry
\* resets the row.
C23_StartedAtWrittenOnce ==
    [][\A t \in Both : tasks[t].started_at # None =>
            \/ tasks'[t].started_at = tasks[t].started_at
            \/ tasks'[t] = RetryValues(tasks[t])]_vars

\* a request has put the task into Processing and stamped started_at, time has
\* passed, and the run of the task has not yet begun
C23_ProcessingBeforeRun ==
    \E t \in DOMAIN tasks, r \in RunIds :
        /\ runs[r].task = t
        /\ runs[r].pc = "scheduled"
        /\ tasks[t].status = PROCESSING
        /\ tasks[t].started_at # None
        /\ Val(tasks[t].started_at) < now

\* C24: a task that is Completed or Failed has started_at and completed_at
\* set, in the order uploaded_at, started_at, completed_at; no task has a
\* completed_at without a started_at.  (Two instants within one tick of the
\* clock read the same, so the order is checked as >=.)
C24_TimestampsOrdered ==
    \A t \in DOMAIN tasks :
        /\ tasks[t].completed_at # None => tasks[t].started_at # None
        /\ tasks[t].status \in {COMPLETED, FAILED} =>
              IF tasks[t].started_at = None \/ tasks[t].completed_at = None
              THEN FALSE
              ELSE /\ Val(tasks[t].completed_at) >= Val(tasks[t].started_at)
                   /\ Val(tasks[t].started_at) >= tasks[t].uploaded_at

\* a task was retried while its first run was still going; that run then
\* completed it: the task is Completed and has no started_at
C24_CompletedNeverStarted ==
    \E t \in DOMAIN tasks :
        /\ tasks[t].status = COMPLETED
        /\ tasks[t].started_at = None
        /\ tasks[t].completed_at # None
        /\ reply = RetryReply(t, 200)

\* C25: when a sweep ends, every task it selected is Failed and has its
\* timeout log, except at most the one whose handling failed.
C25_OtherOverdueTasksFailed ==
    [][SweepEnds =>
         \A k \in DOMAIN mon.sel :
            (IsMonCommit \/ k # mon.i) =>
               (Exists(mon.sel[k]) =>
                  /\ tasks'[mon.sel[k]].status = FAILED
                  /\ TimeoutLog(mon.sel[k]) \in logs')]_vars

\* a sweep selected two overdue tasks and was ended by the exception of a
\* notification: both tasks are still Processing and no timeout log exists
C25_SweepAbandoned ==
    /\ mon.pc = "sleep"
    /\ bcast[MONITOR].raised
    /\ Cardinality(bcast[MONITOR].orig) = 1
    /\ Cardinality(TimedOut) = 2
    /\ \A t \in TimedOut : TimeoutLog(t) \notin logs

\* C26: while the monitor has not been stopped, every sweep, whether it
\* committed, found nothing or raised, leaves the monitor asleep for one
\* check_interval, and when that sleep is over the next sweep can start.
C26_LoopSurvivesSweep ==
    /\ [][(mon.pc = "loop" /\ mon'.pc # "loop" /\ mon'.running) =>
              (mon'.pc = "sleep" /\ mon'.wake = now + check_interval)]_vars
    /\ []((mon.running /\ mon.pc = "sleep" /\ now >= mon.wake) => ENABLED MonSelect)

\* a sweep was ended by the exception of a notification, and one interval
\* later the next sweep has selected the task again
C26_SweepAfterFailedSweep ==
    /\ mon.running
    /\ mon.pc = "loop"
    /\ mon.i = 0
    /\ bcast[MONITOR].raised
    /\ now = LongTime

\* C27: once the monitor has been stopped it stays stopped, no sweep begins
\* (a sweep in flight may go on to its commit or be abandoned), and the loop
\* ends.
C27_NoSweepAfterStop ==
    /\ [][~mon.running =>
              /\ ~mon'.running
              /\ mon.pc # "loop" => mon'.pc # "loop" /\ mon'.wake = mon.wake
              /\ mon.pc = "ended" => mon' = mon]_vars
    /\ (~mon.running ~> mon.pc = "ended")

\* the shutdown reached the monitor inside a send of its sweep: the sweep went
\* on and committed, the monitor slept its interval and the loop has ended
C27_EndedAfterFinishedSweep ==
    /\ mon.pc = "ended"
    /\ ~mon.running
    /\ now >= mon.wake
    /\ bcast[MONITOR].disconnected # <<>>
    /\ \A s \in SockIds : socks[s].alive
    /\ \E t \in DOMAIN tasks :
          /\ failedBy[t] = "monitor"
          /\ TimeoutLog(t) \in logs
          /\ Val(tasks[t].completed_at) + check_interval = mon.wake

\* every coroutine waits: what is true now stays true until the clock advances
Settled ==
    /\ MonIdle
    /\ \A r \in RunIds : runs[r].pc \notin {"scheduled", "exc", "log_exc"}
    /\ \A p \in Publishers : ~Publishing(p)

\* C28: a task that entered Processing and got no update since is, one tick
\* of the clock after TASK_TIMEOUT_SECONDS have passed, Failed with the
\* timeout message, and its timeout log exists.  (The tick of the model
\* stands for the second the sentence allows: the model allows more.)
C28_FailedOnceOverdue ==
    \A t \in DOMAIN tasks :
        (/\ Settled
         /\ mon.running
         /\ failedBy[t] # "processor"
         /\ tasks[t].started_at # None
         /\ now >= Val(tasks[t].started_at) + TASK_TIMEOUT_SECONDS + TickSeconds)
        => /\ tasks[t].status = FAILED
           /\ tasks[t].error_message = Some(TimeoutErrorMessage)
           /\ TimeoutLog(t) \in logs

\* nobody is subscribed and no sweep has failed; the task entered Processing
\* at 30 s, the sweep at 120 s did not select it, and at 150 s it is still
\* Processing while the monitor sleeps until 180 s
C28_StillProcessingBetweenSweeps ==
    \E t \in DOMAIN tasks :
        /\ Settled
        /\ mon.running
        /\ mon.wake > now
        /\ task_subscribers = <<>>
        /\ ~bcast[MONITOR].raised
        /\ tasks[t].status = PROCESSING
        /\ tasks[t].started_at = Some(TickSeconds)
        /\ now = TickSeconds + TASK_TIMEOUT_SECONDS + TickSeconds

\* C29: a connect under a client id that is registered fails and leaves the
\* registration as it is: while a client id stays registered, its socket and
\* its subscriptions are not changed by a connect.
C29_ConnectKeepsRegistration ==
    [][\A c \in DOMAIN active_connections :
          c \in DOMAIN active_connections' =>
             active_connections'[c] = active_connections[c]]_vars

\* two sockets are open under one client id, both peers are there; the id is
\* registered with the socket that connected second
C29_RegistrationReplaced ==
    \E c \in DOMAIN active_connections :
        /\ active_connections[c] = 2
        /\ socks[1].cid = c /\ socks[1].pc = "open" /\ socks[1].alive
        /\ socks[2].cid = c /\ socks[2].pc = "open" /\ socks[2].alive
        /\ \E t \in DOMAIN task_subscribers : c \in task_subscribers[t]

\* the (client, task) relations of a subscriber map
Relations(m) == {x \in ClientIds \X DOMAIN m : x[1] \in m[x[2]]}

\* C30: on every subscriber map the hub reaches, subscribe and unsubscribe
\* are idempotent on one relation, touch no other relation, an unsubscribe of
\* a relation that is not there changes nothing, and a subscribe of a relation
\* that is not there followed by its unsubscribe gives the map back; a
\* subscribe that names a task the store does not have is accepted and the
\* client is sent nothing in answer.
C30_SubscribeUnsubscribeIdempotent ==
    /\ [](\A c \in ClientIds, t \in TopicIds :
            LET m == task_subscribers
                s1 == subscribe_to_task(m, c, t)
                u1 == unsubscribe_from_task(m, c, t)
            IN  /\ subscribe_to_task(s1, c, t) = s1
                /\ unsubscribe_from_task(u1, c, t) = u1
                /\ Relations(s1) = Relations(m) \cup {<<c, t>>}
                /\ Relations(u1) = Relations(m) \ {<<c, t>>}
                /\ <<c, t>> \notin Relations(m) =>
                      (u1 = m /\ unsubscribe_from_task(s1, c, t) = m))
    /\ [][\A s \in SockIds :
            /\ (socks[s].pc = "open" /\ socks'[s].pc = "reply") =>
                  socks[s].cid \in SubscribersAfter(socks'[s].topic)
            /\ (socks[s].pc = "reply" /\ ~Exists(socks[s].topic)) => inbox' = inbox]_vars

\* the sentence as it stands: on every subscriber map, a subscribe followed
\* by the unsubscribe of the same relation gives the map back
C30_SubscribeThenUnsubscribeRestores ==
    \A c \in ClientIds, t \in TopicIds :
        unsubscribe_from_task(subscribe_to_task(task_subscribers, c, t), c, t) = task_subscribers

\* two clients are subscribed to tasks the store does not have, the endpoints
\* have answered, and neither socket was sent anything
C30_SubscribedToUnknownTasks ==
    /\ tasks = <<>>
    /\ Relations(task_subscribers) = {<<1, 1>>, <<2, 1>>, <<1, 2>>}
    /\ \A s \in SockIds : socks[s].pc = "open" /\ socks[s].alive /\ inbox[s] = NoLetter

\* ------------------------------------------- the routes that take a task id
\* The id upload_file gives a task, f"task-{timestamp}-{uuid4().hex[:9]}", as
\* its three parts; the model's task number stands for the timestamp and for
\* the hex digits.
task_id(t) == <<"task", ToString(t), ToString(t)>>

\* the values tried in the place of {task_id} in the path: the ids of the
\* tasks, prefixes of them, the timestamp alone (test_task_update.py, "Use
\* only timestamp part"), and a mix of the parts of two ids
Paths ==
    << task_id(1), <<"task", "1">>, <<"task">>, <<"1">>, <<"task", "1", "2">>, task_id(MaxTasks + 1) >>
PathIds == DOMAIN Paths

IsPrefix(p, q) == Len(p) <= Len(q) /\ SubSeq(q, 1, Len(p)) = p

\* a lookup that takes the beginning of an id for the id
select_by_prefix(p) == {t \in DOMAIN tasks : IsPrefix(p, task_id(t))}

\* select(Task).where(Task.id == task_id): the rows whose id is the value
select_task(p) == {t \in DOMAIN tasks : task_id(t) = p}

\* the response to a request on /tasks/{task_id}: `task` is the number of
\* the path it was sent to
PathReply(method, p, code) == [op |-> method, task |-> p, code |-> code]

\* raise HTTPException(status_code=404, detail="Task not found")
NotFound(method, p) ==
    /\ reply' = PathReply(method, p, 404)
    /\ UNCHANGED <<now, tasks, logs, runs, mon, hubvars, bcast, failedBy, wirevars, uploads>>

RemoveKey(d, k) == [x \in DOMAIN d \ {k} |-> d[x]]

\* GET /tasks/{task_id}
get_task(p) ==
    IF select_task(Paths[p]) = {}
    THEN NotFound("GET", p)
    ELSE /\ reply' = PathReply("GET", p, 200)
         /\ UNCHANGED <<now, tasks, logs, runs, mon, hubvars, bcast, failedBy, wirevars, uploads>>

\* PATCH /tasks/{task_id}
patch_task(p, u) ==
    IF select_task(Paths[p]) = {}
    THEN NotFound("PATCH", p)
    ELSE \E t \in select_task(Paths[p]) : update_task(t, u)

\* DELETE /tasks/{task_id}: the row goes, and its logs with it (cascade);
\* the subscriber sets and the runs are not looked at
delete_task(p) ==
    IF select_task(Paths[p]) = {}
    THEN NotFound("DELETE", p)
    ELSE \E t \in select_task(Paths[p]) :
            /\ tasks' = RemoveKey(tasks, t)
            /\ logs' = {l \in logs : l.task # t}
            /\ failedBy' = [failedBy EXCEPT ![t] = "nobody"]
            /\ uploads' = Forget(t)
            /\ reply' = PathReply("DELETE", p, 200)
            /\ UNCHANGED <<now, runs, mon, hubvars, bcast, wirevars>>

\* POST /tasks/{task_id}/retry
post_retry(p) ==
    IF select_task(Paths[p]) = {}
    THEN NotFound("POST", p)
    ELSE \E t \in select_task(Paths[p]) : retry_task(t)

ByPath(p) ==
    \/ get_task(p)
    \/ \E u \in StatusInputs : patch_task(p, u)
    \/ delete_task(p)
    \/ post_retry(p)

\* The uploads when the server starts, then requests on the paths, while
\* clients subscribe to the tasks; no run and no sweep begins.
NextLookup ==
    \/ now = 0 /\ Tick
    \/ now = 0 /\ upload_file
    \/ \E p \in PathIds : now > 0 /\ ByPath(p)
    \/ \E s \in SockIds : now = 0 /\ WsConnect(s, s)
    \/ \E t \in TopicIds : now = 0 /\ WsSubscribe(1, t)
    \/ \E s \in SockIds : WsReply(s)

SpecLookup == Init /\ [][NextLookup]_vars

\* C31: a request to get, update, delete or retry a task whose path value is
\* not exactly the id of an existing task (a prefix or a fragment of one
\* included) is answered 404 and leaves the tasks, the logs, the runs and
\* the subscriber sets as they are.
C31_UnknownIdNotFound ==
    [][\A p \in PathIds :
          (ByPath(p) /\ \A t \in DOMAIN tasks : task_id(t) # Paths[p])
             => /\ reply'.code = 404 /\ reply'.task = p
                /\ UNCHANGED <<tasks, logs, runs, task_subscribers, active_connections>>]_vars

\* a PATCH on the prefix "task-1" of the id of a task that exists and has a
\* subscriber was answered 404
C31_PrefixNotFound ==
    /\ Exists(1) /\ task_subscribers # <<>>
    /\ reply = PathReply("PATCH", 2, 404)

\* the four fields of a row that carry the outcome of the work
OutcomeFields(row) == <<row.status, row.progress, row.result_url, row.error_message>>

\* a step of a run of the processor on t, a step of the sweep, or an
\* accepted retry of t
WriterStep(t) ==
    \/ \E r \in RunIds : runs[r].task = t /\ runs'[r] # runs[r]
    \/ mon' # mon
    \/ AcceptedRetry(t)

\* C32: the status, progress, result location and error message of a task
\* are changed only by a processor run, a timeout sweep or the reset of an
\* accepted retry; every other operation leaves the four fields unchanged.
C32_OnlyWritersChangeOutcome ==
    [][\A t \in DOMAIN tasks :
          (t \in DOMAIN tasks' /\ OutcomeFields(tasks'[t]) # OutcomeFields(tasks[t]))
             => WriterStep(t)]_vars

\* a task is Pending with progress 50: no run, sweep or retry writes that
C32_ProgressSetByRequest ==
    /\ Exists(1)
    /\ tasks[1].status = PENDING /\ tasks[1].progress = Some(50)
    /\ \A r \in RunIds : runs[r].pc \in {"none", "scheduled"}

\* Upload requests that arrive within one second (the timestamp in their ids
\* is the same) and overlap, and deletes; no run begins.
NextIngress ==
    \/ \E q \in UploadIds : Upload(q)
    \/ \E p \in PathIds : delete_task(p)

SpecIngress == Init /\ [][NextIngress]_vars

\* the content under UPLOAD_DIR of the files that the file_storage rows of
\* task t name
StoredFiles(up, t) ==
    {<<f.checksum, IF f.storage_path \in DOMAIN up.dir THEN Some(up.dir[f.storage_path]) ELSE None>> :
        f \in {g \in up.file_storage : g.task_id = t}}

UploadStep == uploads'.reqs # uploads.reqs

\* C33: task ids are unique: an upload whose id belongs to an existing task
\* ends as an error, and no step of an upload changes an existing task, its
\* id, its row, its hash or its stored file.
C33_UploadLeavesExistingTask ==
    [][UploadStep =>
          /\ \A t \in DOMAIN tasks :
                /\ t \in DOMAIN tasks' /\ tasks'[t] = tasks[t]
                /\ uploads'.file_hash[t] = uploads.file_hash[t]
                /\ StoredFiles(uploads', t) = StoredFiles(uploads, t)
          /\ \A q \in UploadIds :
                (uploads.reqs[q].pc = "commit" /\ uploads'.reqs[q].pc = "done"
                    /\ Exists(uploads.reqs[q].id))
                   => uploads'.reqs[q].code >= 400 /\ runs' = runs]_vars

\* an upload was answered 500 because its id belongs to a task, and the
\* stored file of that task holds another content than the one its row and
\* its checksum are of
C33_StoredFileReplaced ==
    \E q \in UploadIds, t \in DOMAIN tasks :
        /\ uploads.reqs[q].pc = "done" /\ uploads.reqs[q].code = 500 /\ uploads.reqs[q].id = t
        /\ \E f \in uploads.file_storage :
              /\ f.task_id = t /\ f.storage_path \in DOMAIN uploads.dir
              /\ f.checksum # calculate_file_hash(uploads.dir[f.storage_path])
              /\ uploads.file_hash[t] = f.checksum

\* C40: at most one task exists for a file content hash: an upload whose
\* content has the hash of an existing task is rejected and creates no task,
\* no file record and no run, also when two uploads of the same content
\* overlap.
C40_OneTaskPerHash ==
    /\ \A t1, t2 \in DOMAIN tasks :
          uploads.file_hash[t1] = uploads.file_hash[t2] => t1 = t2
    /\ \A f1, f2 \in uploads.file_storage : f1.checksum = f2.checksum => f1 = f2
    /\ \A q1, q2 \in UploadIds :
          (/\ q1 # q2
           /\ uploads.reqs[q1].code = 200 /\ uploads.reqs[q2].code = 200
           /\ Exists(uploads.reqs[q1].id) /\ Exists(uploads.reqs[q2].id))
             => uploads.reqs[q1].content # uploads.reqs[q2].content

\* two uploads of one content were both answered 200: two tasks have its
\* hash, each with a file record and a scheduled run
C40_TwoTasksOfOneContent ==
    /\ \A q \in {1, 2} : uploads.reqs[q].code = 200 /\ uploads.reqs[q].content = 1
    /\ DOMAIN tasks = {1, 2}
    /\ uploads.file_hash[1] = uploads.file_hash[2]
    /\ Cardinality(uploads.file_storage) = 2
    /\ \A t \in {1, 2} : \E r \in RunIds : runs[r].task = t /\ runs[r].pc = "scheduled"

\* the notification socket s was sent last carries `status`
LastLetterIs(box, status) == box.msg # None /\ Val(box.msg).status = status

\* C34: the processor looks at the status before each step of its loop, so
\* a run does not write the progress of a task that is Failed or Completed
\* nor publish 'processing' for it, and a socket that was sent the failure of
\* a task is not sent 'processing' after it (no retry takes place here).
C34_NoProgressAfterTerminal ==
    [][/\ \A r \in RunIds : \A t \in DOMAIN tasks :
            (/\ runs[r].task = t /\ tasks[t].status \in {FAILED, COMPLETED}
             /\ runs[r].pc = "sleep" /\ runs'[r].pc # "sleep")
               => tasks'[t].progress = tasks[t].progress /\ seq' = seq
       /\ \A s \in SockIds :
            (LastLetterIs(inbox[s], FAILED) /\ inbox'[s].seq # inbox[s].seq)
               => ~LastLetterIs(inbox'[s], PROCESSING)]_vars

\* the sweep failed the task and told the follower, its commit is done, and
\* the run that slept meanwhile has written its progress over it and sent
\* the follower 'processing'
C34_ProcessingAfterFailed ==
    /\ Exists(1) /\ tasks[1].status = FAILED /\ failedBy[1] = "monitor"
    /\ TimeoutLog(1) \in logs
    /\ LastLetterIs(inbox[Follower], PROCESSING)
    /\ inbox[Follower].seq > bcast[MONITOR].seq /\ bcast[MONITOR].sent # <<>>
    /\ Val(inbox[Follower].msg).progress = tasks[1].progress
    /\ \E r \in RunIds : runs[r].task = 1 /\ Some(runs[r].progress) = tasks[1].progress

\* C35: what a sweep changes, logs and notifies are tasks that are Processing
\* with started_at earlier than now - TASK_TIMEOUT_SECONDS when it does so;
\* every other task keeps all its fields and gets no log entry and no
\* notification from the sweep.
C35_SweepTouchesOverdueOnly ==
    [][/\ IsMonCommit =>
            \A t \in DOMAIN tasks :
                (tasks'[t] # tasks[t] \/ (TimeoutLog(t) \in logs' /\ TimeoutLog(t) \notin logs))
                   => t \in TimedOut
       /\ (mon.pc = "loop" /\ mon'.pc = "loop" /\ mon'.i = mon.i + 1)
             => mon.sel[mon'.i] \in TimedOut]_vars

\* a sweep has failed a task that was Pending, waiting for the run of its
\* retry, and had no start time
C35_PendingTaskFailed ==
    /\ Exists(1) /\ tasks[1].status = FAILED /\ failedBy[1] = "monitor"
    /\ tasks[1].started_at = None
    /\ TimeoutLog(1) \in logs
    /\ reply = RetryReply(1, 200)
    /\ \E r \in RunIds : runs[r].task = 1 /\ runs[r].pc = "scheduled"

\* a text that json.loads or message["type"] raises on: the `except
\* Exception` of websocket_endpoint calls manager.disconnect(client_id), the
\* endpoint returns and the server closes the socket
WsMalformed(s) ==
    /\ socks[s].pc = "open"
    /\ socks[s].alive
    /\ Disconnected(socks[s].cid)
    /\ socks' = [socks EXCEPT ![s].pc = "closed", ![s].alive = FALSE]
    /\ UNCHANGED <<wirevars, reply, uploads, now, tasks, logs, runs, mon, failedBy>>

\* The endpoints alone, with clients that send texts the endpoint cannot read.
NextReceive ==
    \/ NextEndpoints
    \/ \E s \in SockIds : WsMalformed(s)

SpecReceive == Init /\ [][NextReceive]_vars

\* the receive loop of socket s runs and s is the socket its id is registered with
Serving(s) ==
    /\ socks[s].pc \in {"open", "reply"}
    /\ socks[s].cid \in DOMAIN active_connections
    /\ active_connections[socks[s].cid] = s

\* C36: when the receive loop of a connection ends (the transport closed, a
\* text could not be read, a send raised), its id is in no subscriber set
\* afterwards, and every other connection keeps its registration and its
\* subscriptions.
C36_LoopEndDisconnectsOnlyItself ==
    [][\A s \in SockIds :
          ClosesSock(s) =>
              /\ Absent(HubAfter, socks[s].cid)
              /\ \A o \in SockIds \ {s} :
                    Serving(o) =>
                       /\ socks[o].cid \in DOMAIN active_connections'
                       /\ active_connections'[socks[o].cid] = o
                       /\ \A t \in TopicIds :
                             socks[o].cid \in Subscribers(t) <=> socks[o].cid \in SubscribersAfter(t)]_vars

\* socket 1 was closed after a text it could not read; socket 2, which
\* connected under the same id and subscribed, is open with its peer there,
\* and is neither registered nor subscribed any more
C36_LiveSocketUnregistered ==
    /\ socks[1].pc = "closed" /\ socks[2].pc = "open" /\ socks[2].alive
    /\ socks[1].cid = socks[2].cid
    /\ dropped = [client |-> socks[2].cid, registered |-> TRUE, topics |-> TopicIds]
    /\ active_connections = <<>> /\ task_subscribers = <<>>

\* C37: in every state of the hub, every client id in a subscriber set is a
\* registered connection, whatever the interleaving of connects, subscribes,
\* unsubscribes, publishes with failed sends and disconnects.
C37_SubscribersRegistered ==
    \A t \in DOMAIN task_subscribers : task_subscribers[t] \subseteq DOMAIN active_connections

\* the id of an open socket whose peer is there is subscribed to a task and
\* is not registered: the disconnect of another socket of that id came first
C37_SubscribedUnregistered ==
    \E s \in SockIds :
        /\ socks[s].pc = "open" /\ socks[s].alive
        /\ socks[s].cid \notin DOMAIN active_connections
        /\ \E t \in DOMAIN task_subscribers : socks[s].cid \in task_subscribers[t]
        /\ dropped.client = socks[s].cid /\ dropped.registered

\* C38: a task_update the processor or the monitor publishes carries the
\* status and the progress the store holds for the task when it is
\* published; so does the notification of a failure, whichever of the two
\* failed the task.
C38_NotificationCarriesStoredState ==
    [][\A s \in SockIds :
          (inbox'[s].seq = seq' /\ seq' = seq + 1 /\ inbox'[s].msg # None)
             => LET m == Val(inbox'[s].msg) IN
                Exists(m.task_id) =>
                   /\ m.status = tasks'[m.task_id].status
                   /\ m.progress = tasks'[m.task_id].progress]_vars

\* the run failed its task at progress 80 (its own time limit) and the
\* follower was sent 'failed' with progress 0
C38_FailureSentWithProgressZero ==
    /\ Exists(1) /\ tasks[1].status = FAILED /\ failedBy[1] = "processor"
    /\ tasks[1].progress = Some(80)
    /\ inbox[Follower].seq = seq
    /\ LastLetterIs(inbox[Follower], FAILED)
    /\ Val(inbox[Follower].msg).progress = Some(0)

\* C39: when a sweep ends, a task whose failure it has sent to a subscriber
\* is Failed in the store and has its timeout log: nobody is told that a
\* task failed while the store keeps it Processing because the sweep was
\* rolled back.
C39_PublishedFailureIsStored ==
    [][SweepEnds =>
          LET b == bcast'[MONITOR] IN
          (b.sent # <<>> /\ Exists(b.task)) =>
              /\ tasks'[b.task].status = FAILED
              /\ TimeoutLog(b.task) \in logs']_vars

\* the sweep is over and was rolled back; client 1, connected and subscribed,
\* holds its 'failed' notification of a task the store has as Processing,
\* without a timeout log
C39_ToldFailedStoredProcessing ==
    \E t \in DOMAIN tasks :
        /\ mon.pc = "sleep" /\ bcast[MONITOR].raised /\ bcast[MONITOR].task = t
        /\ socks[1].pc = "open" /\ socks[1].alive /\ socks[1].cid \in Subscribers(t)
        /\ LastLetterIs(inbox[1], FAILED) /\ Val(inbox[1].msg).task_id = t
        /\ tasks[t].status = PROCESSING
        /\ TimeoutLog(t) \notin logs
====
